---- MODULE Spec2Model ----
(***************************************************************************)
(* Token ledger and order book of the off-chain RWA token platform.        *)
(*                                                                         *)
(* The relational store (server/storage.ts, shared schema) is the state.   *)
(* Every route handler of server/routes.ts is a chain of awaited storage   *)
(* calls; a handler is modelled as a step function over (store, locals)    *)
(* with one step per awaited call that touches the ledger.  Two            *)
(* specifications use the same step functions:                             *)
(*   Spec      every request runs to completion before the next starts;    *)
(*   SpecConc  two requests are in flight and interleave at the awaits     *)
(*             (the handlers open no database transaction);                *)
(*   SpecFault, SpecKyc, SpecAdmin  requests one at a time, with storage   *)
(*             calls that may throw, with the KYC review routes, and with  *)
(*             NAV revisions and admin routes called by investors;         *)
(*   SpecIssue issuance only (mints, token requests and their review)      *)
(*             with the KYC review routes, one request at a time;          *)
(*   SpecLive  one request at a time with KYC review and account holds;    *)
(*             the admin keeps rejecting OPEN orders (weak fairness).      *)
(* Money is kept in cents (decimal(18,2) columns).                         *)
(***************************************************************************)
EXTENDS Integers, Sequences, FiniteSets, TLC

----------------------------------------------------------------------------
(* Bounds of the model *)

\* requests served in a behaviour of Spec
MaxReq == 3
\* requests served in a behaviour of SpecConc
MaxConcReq == 2
\* requests served in a behaviour of SpecFault
MaxFaultReq == 2
\* requests served in a behaviour of SpecKyc
MaxKycReq == 2
\* requests served in a behaviour of SpecAdmin
MaxAdminReq == 2
\* requests served in a behaviour of SpecIssue
MaxIssueReq == 3
\* requests other than the admin's rejections of OPEN orders in a behaviour of
\* SpecLive
MaxLiveReq == 2

\* seed data: one asset, one admin, two investors whose KYC was approved
TotalSupply == 3
NavPrice == 100

AssetIds == {"a1"}
Users == {"adm", "u1", "u2"}
Investors == {"u1", "u2"}
Procs == {1, 2}

\* who sends the admin requests and who the investor requests
AdminCallers == {"adm"}
InvestorCallers == Investors

\* request bodies the routes are driven with
Amounts == {-1, 1, 2}
NewAmounts == {0, 1, 3}
Prices == {200}
\* req.body.navPrice of a NAV revision, in cents
NavPrices == {-50, 0, 150}
\* an asset id no row has
MissingAssetId == "a0"
Reasons == {"", "TRADE"}
\* the reason the admin console sends with every correction of a token amount
ClientReason == "Admin adjustment"
\* the values of the transfer_reason enum, the type of transfers.reason
TransferReasons == {"TRANSFER", "MINT", "FREEZE", "UNFREEZE", "ADMIN_REVOKE", "TRADE"}

\* an absent row (a lookup that returns undefined), and a null user reference
NoRow == [found |-> FALSE]
NoUser == ""
Found(row) == "found" \notin DOMAIN row

VARIABLES
    users,          \* users table: id -> row
    assets,         \* assets table: id -> row
    tokens,         \* tokens table: set of rows
    tokenSeq,       \* number of token rows ever inserted (fresh primary keys)
    orders,         \* orders table, in insertion order; id = position
    transfers,      \* transfers table, in insertion order
    priceHistory,   \* price_history table, in insertion order
    navHistory,     \* nav_history table, in insertion order
    tokenRequests,  \* token_requests table, in insertion order; id = position
    notifications,  \* notifications table, in insertion order
    inflight,       \* per connection: the locals of the request being served
    last,           \* the request that completed last, with its HTTP status
    nreq            \* requests accepted so far

vars == <<users, assets, tokens, tokenSeq, orders, transfers, priceHistory,
          navHistory, tokenRequests, notifications, inflight, last, nreq>>

\* the store as one value, as the handlers' step functions take it
DB == [users |-> users, assets |-> assets, tokens |-> tokens, tokenSeq |-> tokenSeq,
       orders |-> orders, transfers |-> transfers, priceHistory |-> priceHistory,
       navHistory |-> navHistory,
       tokenRequests |-> tokenRequests, notifications |-> notifications]

----------------------------------------------------------------------------
(* Arithmetic on decimal strings, in cents *)

Abs(x) == IF x < 0 THEN -x ELSE x

\* (x / y).toFixed(2) for y > 0: nearest cent (no tie arises with Prices, NavPrice)
RoundDiv(x, y) == (2 * x + y) \div (2 * y)

----------------------------------------------------------------------------
(* storage.ts *)

getUser(db, id) == IF id \in DOMAIN db.users THEN db.users[id] ELSE NoRow

updateUserKycStatus(db, id, status) ==
    IF id \in DOMAIN db.users
    THEN [db EXCEPT !.users[id].kycStatus = status]
    ELSE db

updateUserFrozenStatus(db, id, isFrozen) ==
    IF id \in DOMAIN db.users
    THEN [db EXCEPT !.users[id].isFrozen = isFrozen]
    ELSE db

getAsset(db, id) == IF id \in DOMAIN db.assets THEN db.assets[id] ELSE NoRow

\* updateAssetRemainingSupply whose write is lost
updateAssetRemainingSupplyLost(db, id, remainingSupply) == db

updateAssetRemainingSupply(db, id, remainingSupply) ==
    [db EXCEPT !.assets = [a \in DOMAIN db.assets |->
        IF a = id THEN [db.assets[a] EXCEPT !.remainingSupply = remainingSupply]
        ELSE db.assets[a]]]

updateAssetNavPrice(db, id, navPrice) ==
    [db EXCEPT !.assets = [a \in DOMAIN db.assets |->
        IF a = id THEN [db.assets[a] EXCEPT !.navPrice = navPrice]
        ELSE db.assets[a]]]

getToken(db, id) ==
    IF \E t \in db.tokens : t.id = id
    THEN CHOOSE t \in db.tokens : t.id = id
    ELSE NoRow

\* the rows getTokenByAssetAndUser selects from (it returns the first one the
\* database yields; the query has no ORDER BY)
TokensByAssetAndUser(db, assetId, userId) ==
    {t \in db.tokens : t.assetId = assetId /\ t.ownerId = userId}

createToken(db, assetId, ownerId, amount, costBasis) ==
    [db EXCEPT !.tokenSeq = db.tokenSeq + 1,
               !.tokens = db.tokens \cup
                   {[id |-> db.tokenSeq + 1, assetId |-> assetId, ownerId |-> ownerId,
                     amount |-> amount, costBasis |-> costBasis]}]

updateTokenAmount(db, id, amount) ==
    [db EXCEPT !.tokens = {IF t.id = id THEN [t EXCEPT !.amount = amount] ELSE t
                           : t \in db.tokens}]

updateTokenCostBasis(db, id, costBasis, amount) ==
    [db EXCEPT !.tokens = {IF t.id = id
                           THEN [t EXCEPT !.amount = amount, !.costBasis = costBasis]
                           ELSE t : t \in db.tokens}]

deleteToken(db, id) ==
    [db EXCEPT !.tokens = {t \in db.tokens : t.id # id}]

getOrder(db, id) ==
    IF id \in 1..Len(db.orders) THEN db.orders[id] ELSE NoRow

createOrder(db, sellerId, assetId, tokenAmount, pricePerToken) ==
    [db EXCEPT !.orders = Append(db.orders,
        [id |-> Len(db.orders) + 1, sellerId |-> sellerId, buyerId |-> NoUser,
         assetId |-> assetId, tokenAmount |-> tokenAmount,
         pricePerToken |-> pricePerToken,
         status |-> "OPEN", approvalStatus |-> "PENDING"])]

\* updateOrderStatus that writes the status and never the buyer
updateOrderStatusNoBuyer(db, id, status, buyerId) ==
    IF id \in 1..Len(db.orders)
    THEN [db EXCEPT !.orders[id].status = status]
    ELSE db

updateOrderStatus(db, id, status, buyerId) ==
    IF id \in 1..Len(db.orders)
    THEN [db EXCEPT !.orders[id] =
             IF buyerId # NoUser
             THEN [db.orders[id] EXCEPT !.status = status, !.buyerId = buyerId]
             ELSE [db.orders[id] EXCEPT !.status = status]]
    ELSE db

updateOrderApprovalStatus(db, id, approvalStatus) ==
    IF id \in 1..Len(db.orders)
    THEN [db EXCEPT !.orders[id].approvalStatus = approvalStatus]
    ELSE db

\* createTransfer writing over the newest row of the log instead of adding one
createTransferOverNewest(db, assetId, fromUserId, toUserId, tokenAmount, reason) ==
    LET row == [assetId |-> assetId, fromUserId |-> fromUserId, toUserId |-> toUserId,
                tokenAmount |-> tokenAmount, reason |-> reason]
    IN IF db.transfers = <<>>
       THEN [db EXCEPT !.transfers = <<row>>]
       ELSE [db EXCEPT !.transfers[Len(db.transfers)] = row]

createTransfer(db, assetId, fromUserId, toUserId, tokenAmount, reason) ==
    [db EXCEPT !.transfers = Append(db.transfers,
        [assetId |-> assetId, fromUserId |-> fromUserId, toUserId |-> toUserId,
         tokenAmount |-> tokenAmount, reason |-> reason])]

\* createPriceHistory recording the asset but not the order
createPriceHistoryNoOrder(db, assetId, price, volume, orderId) ==
    [db EXCEPT !.priceHistory = Append(db.priceHistory,
        [assetId |-> assetId, price |-> price, volume |-> volume, orderId |-> 0])]

createPriceHistory(db, assetId, price, volume, orderId) ==
    [db EXCEPT !.priceHistory = Append(db.priceHistory,
        [assetId |-> assetId, price |-> price, volume |-> volume, orderId |-> orderId])]

createNavHistory(db, assetId, navPrice, reason) ==
    [db EXCEPT !.navHistory = Append(db.navHistory,
        [assetId |-> assetId, navPrice |-> navPrice, reason |-> reason])]

getTokenRequest(db, id) ==
    IF id \in 1..Len(db.tokenRequests) THEN db.tokenRequests[id] ELSE NoRow

createTokenRequest(db, userId, assetId, amount) ==
    [db EXCEPT !.tokenRequests = Append(db.tokenRequests,
        [id |-> Len(db.tokenRequests) + 1, userId |-> userId, assetId |-> assetId,
         amount |-> amount, status |-> "PENDING"])]

updateTokenRequestStatus(db, id, status) ==
    IF id \in 1..Len(db.tokenRequests)
    THEN [db EXCEPT !.tokenRequests[id].status = status]
    ELSE db

createNotification(db, userId, type) ==
    [db EXCEPT !.notifications = Append(db.notifications,
        [userId |-> userId, type |-> type])]

----------------------------------------------------------------------------
(* Requests and the locals of a handler *)

\* a request as a route receives it, with the handler's locals still empty
Request(op, caller, aid, uid, tid, oid, rid, amount, price, reason) ==
    [op |-> op, caller |-> caller, aid |-> aid, uid |-> uid, tid |-> tid,
     oid |-> oid, rid |-> rid, amount |-> amount, price |-> price, reason |-> reason,
     pc |-> "auth", res |-> 0,
     usr |-> NoRow, usr2 |-> NoRow, asset |-> NoRow, tok |-> NoRow,
     ord |-> NoRow, rq |-> NoRow]

Idle == [pc |-> "idle"]

Ret(db, l, code) == [db |-> db, l |-> [l EXCEPT !.pc = "done", !.res = code]]
Go(db, l, pc) == [db |-> db, l |-> [l EXCEPT !.pc = pc]]

\* the handler's catch block: the awaited call threw, the handler answers 500;
\* what it wrote before stays written (no transaction is open)
Throw(db, l) == Ret(db, l, 500)

\* adminMiddleware letting every authenticated user through
adminMiddlewareAnyRole(usr) ==
    IF ~Found(usr) THEN 401
    ELSE 0

\* auth.ts: authMiddleware then adminMiddleware; 0 when the request passes
adminMiddleware(usr) ==
    IF ~Found(usr) THEN 401
    ELSE IF usr.role # "ADMIN" THEN 403
    ELSE 0

\* kycApprovedMiddleware without the check of the account hold
kycApprovedMiddlewareNoHold(usr) ==
    IF ~Found(usr) THEN 401
    ELSE IF usr.kycStatus # "APPROVED" THEN 403
    ELSE 0

\* auth.ts: authMiddleware then kycApprovedMiddleware; 0 when the request passes
kycApprovedMiddleware(usr) ==
    IF ~Found(usr) THEN 401
    ELSE IF usr.kycStatus # "APPROVED" THEN 403
    ELSE IF usr.isFrozen THEN 403
    ELSE 0

\* creditToken with the row's amount overwritten instead of incremented
creditTokenOverwrite(db, tok, assetId, ownerId, amount, cost) ==
    IF Found(tok)
    THEN updateTokenCostBasis(db, tok.id, tok.costBasis + cost, amount)
    ELSE createToken(db, assetId, ownerId, amount, cost)

\* the credit every crediting route performs on the row it looked up:
\* increment the row (amount and cost basis) or insert a new one
creditToken(db, tok, assetId, ownerId, amount, cost) ==
    IF Found(tok)
    THEN updateTokenCostBasis(db, tok.id, tok.costBasis + cost, tok.amount + amount)
    ELSE createToken(db, assetId, ownerId, amount, cost)

Admins(db) == {u \in DOMAIN db.users : db.users[u].role = "ADMIN"}

RECURSIVE notifyAll(_, _, _)
notifyAll(db, ids, type) ==
    IF ids = {} THEN db
    ELSE LET u == CHOOSE x \in ids : TRUE
         IN notifyAll(createNotification(db, u, type), ids \ {u}, type)

----------------------------------------------------------------------------
(* routes.ts: token ledger *)

\* MintRoute without the check of the target user's KYC status
MintRouteNoKyc(db, l, pick) ==
    CASE l.pc = "auth" ->
           LET u == getUser(db, l.caller) IN
           IF adminMiddleware(u) # 0 THEN Ret(db, l, adminMiddleware(u))
           ELSE IF ~(l.amount > 0) THEN Ret(db, l, 400)
           ELSE Go(db, [l EXCEPT !.usr = u], "getAsset")
      [] l.pc = "getAsset" ->
           LET asset == getAsset(db, l.aid) IN
           IF ~Found(asset) THEN Ret(db, l, 404)
           ELSE Go(db, [l EXCEPT !.asset = asset], "getUser")
      [] l.pc = "getUser" ->
           LET targetUser == getUser(db, l.uid) IN
           IF ~Found(targetUser) THEN Ret(db, l, 404)
           ELSE IF l.asset.remainingSupply < l.amount THEN Ret(db, l, 400)
           ELSE Go(db, [l EXCEPT !.usr2 = targetUser], "getTokenByAssetAndUser")
      [] l.pc = "getTokenByAssetAndUser" ->
           Go(db, [l EXCEPT !.tok = pick], "writeToken")
      [] l.pc = "writeToken" ->
           Go(creditToken(db, l.tok, l.aid, l.uid, l.amount, l.asset.navPrice * l.amount),
              l, "updateAssetRemainingSupply")
      [] l.pc = "updateAssetRemainingSupply" ->
           Go(updateAssetRemainingSupply(db, l.aid, l.asset.remainingSupply - l.amount),
              l, "createTransfer")
      [] l.pc = "createTransfer" ->
           Ret(createTransfer(db, l.aid, NoUser, l.uid, l.amount, "MINT"), l, 201)

\* MintRoute costing the tokens at the seeded NAV instead of the asset's current one
MintRouteSeedNav(db, l, pick) ==
    CASE l.pc = "auth" ->
           LET u == getUser(db, l.caller) IN
           IF adminMiddleware(u) # 0 THEN Ret(db, l, adminMiddleware(u))
           ELSE IF ~(l.amount > 0) THEN Ret(db, l, 400)
           ELSE Go(db, [l EXCEPT !.usr = u], "getAsset")
      [] l.pc = "getAsset" ->
           LET asset == getAsset(db, l.aid) IN
           IF ~Found(asset) THEN Ret(db, l, 404)
           ELSE Go(db, [l EXCEPT !.asset = asset], "getUser")
      [] l.pc = "getUser" ->
           LET targetUser == getUser(db, l.uid) IN
           IF ~Found(targetUser) THEN Ret(db, l, 404)
           ELSE IF targetUser.kycStatus # "APPROVED" THEN Ret(db, l, 400)
           ELSE IF l.asset.remainingSupply < l.amount THEN Ret(db, l, 400)
           ELSE Go(db, [l EXCEPT !.usr2 = targetUser], "getTokenByAssetAndUser")
      [] l.pc = "getTokenByAssetAndUser" ->
           Go(db, [l EXCEPT !.tok = pick], "writeToken")
      [] l.pc = "writeToken" ->
           Go(creditToken(db, l.tok, l.aid, l.uid, l.amount, NavPrice * l.amount),
              l, "updateAssetRemainingSupply")
      [] l.pc = "updateAssetRemainingSupply" ->
           Go(updateAssetRemainingSupply(db, l.aid, l.asset.remainingSupply - l.amount),
              l, "createTransfer")
      [] l.pc = "createTransfer" ->
           Ret(createTransfer(db, l.aid, NoUser, l.uid, l.amount, "MINT"), l, 201)

\* POST /api/tokens/mint
MintRoute(db, l, pick) ==
    CASE l.pc = "auth" ->
           LET u == getUser(db, l.caller) IN
           IF adminMiddleware(u) # 0 THEN Ret(db, l, adminMiddleware(u))
           ELSE IF ~(l.amount > 0) THEN Ret(db, l, 400)
           ELSE Go(db, [l EXCEPT !.usr = u], "getAsset")
      [] l.pc = "getAsset" ->
           LET asset == getAsset(db, l.aid) IN
           IF ~Found(asset) THEN Ret(db, l, 404)
           ELSE Go(db, [l EXCEPT !.asset = asset], "getUser")
      [] l.pc = "getUser" ->
           LET targetUser == getUser(db, l.uid) IN
           IF ~Found(targetUser) THEN Ret(db, l, 404)
           ELSE IF targetUser.kycStatus # "APPROVED" THEN Ret(db, l, 400)
           ELSE IF l.asset.remainingSupply < l.amount THEN Ret(db, l, 400)
           ELSE Go(db, [l EXCEPT !.usr2 = targetUser], "getTokenByAssetAndUser")
      [] l.pc = "getTokenByAssetAndUser" ->
           Go(db, [l EXCEPT !.tok = pick], "writeToken")
      [] l.pc = "writeToken" ->
           Go(creditToken(db, l.tok, l.aid, l.uid, l.amount, l.asset.navPrice * l.amount),
              l, "updateAssetRemainingSupply")
      [] l.pc = "updateAssetRemainingSupply" ->
           Go(updateAssetRemainingSupply(db, l.aid, l.asset.remainingSupply - l.amount),
              l, "createTransfer")
      [] l.pc = "createTransfer" ->
           Ret(createTransfer(db, l.aid, NoUser, l.uid, l.amount, "MINT"), l, 201)

\* RevokeRoute that keeps the row when nothing is left on it
RevokeRouteKeepRow(db, l, pick) ==
    CASE l.pc = "auth" ->
           LET u == getUser(db, l.caller) IN
           IF adminMiddleware(u) # 0 THEN Ret(db, l, adminMiddleware(u))
           ELSE IF l.tid = 0 \/ l.amount = 0 \/ l.amount <= 0 THEN Ret(db, l, 400)
           ELSE Go(db, [l EXCEPT !.usr = u], "getToken")
      [] l.pc = "getToken" ->
           LET token == getToken(db, l.tid) IN
           IF ~Found(token) THEN Ret(db, l, 404)
           ELSE IF token.amount < l.amount THEN Ret(db, l, 400)
           ELSE Go(db, [l EXCEPT !.tok = token], "getAsset")
      [] l.pc = "getAsset" ->
           LET asset == getAsset(db, l.tok.assetId) IN
           IF ~Found(asset) THEN Ret(db, l, 404)
           ELSE Go(db, [l EXCEPT !.asset = asset], "writeToken")
      [] l.pc = "writeToken" ->
           Go(updateTokenAmount(db, l.tid, l.tok.amount - l.amount),
              l, "updateAssetRemainingSupply")
      [] l.pc = "updateAssetRemainingSupply" ->
           Go(updateAssetRemainingSupply(db, l.tok.assetId,
                                         l.asset.remainingSupply + l.amount),
              l, "createTransfer")
      [] l.pc = "createTransfer" ->
           Ret(createTransfer(db, l.tok.assetId, l.tok.ownerId, NoUser, l.amount,
                              "ADMIN_REVOKE"), l, 200)

\* RevokeRoute without the check of the amount against the row's balance
RevokeRouteUnbounded(db, l, pick) ==
    CASE l.pc = "auth" ->
           LET u == getUser(db, l.caller) IN
           IF adminMiddleware(u) # 0 THEN Ret(db, l, adminMiddleware(u))
           ELSE IF l.tid = 0 \/ l.amount = 0 \/ l.amount <= 0 THEN Ret(db, l, 400)
           ELSE Go(db, [l EXCEPT !.usr = u], "getToken")
      [] l.pc = "getToken" ->
           LET token == getToken(db, l.tid) IN
           IF ~Found(token) THEN Ret(db, l, 404)
           ELSE Go(db, [l EXCEPT !.tok = token], "getAsset")
      [] l.pc = "getAsset" ->
           LET asset == getAsset(db, l.tok.assetId) IN
           IF ~Found(asset) THEN Ret(db, l, 404)
           ELSE Go(db, [l EXCEPT !.asset = asset], "writeToken")
      [] l.pc = "writeToken" ->
           Go(IF l.tok.amount = l.amount
              THEN deleteToken(db, l.tid)
              ELSE updateTokenAmount(db, l.tid, l.tok.amount - l.amount),
              l, "updateAssetRemainingSupply")
      [] l.pc = "updateAssetRemainingSupply" ->
           Go(updateAssetRemainingSupply(db, l.tok.assetId,
                                         l.asset.remainingSupply + l.amount),
              l, "createTransfer")
      [] l.pc = "createTransfer" ->
           Ret(createTransfer(db, l.tok.assetId, l.tok.ownerId, NoUser, l.amount,
                              "ADMIN_REVOKE"), l, 200)

\* POST /api/tokens/revoke
RevokeRoute(db, l, pick) ==
    CASE l.pc = "auth" ->
           LET u == getUser(db, l.caller) IN
           IF adminMiddleware(u) # 0 THEN Ret(db, l, adminMiddleware(u))
           ELSE IF l.tid = 0 \/ l.amount = 0 \/ l.amount <= 0 THEN Ret(db, l, 400)
           ELSE Go(db, [l EXCEPT !.usr = u], "getToken")
      [] l.pc = "getToken" ->
           LET token == getToken(db, l.tid) IN
           IF ~Found(token) THEN Ret(db, l, 404)
           ELSE IF token.amount < l.amount THEN Ret(db, l, 400)
           ELSE Go(db, [l EXCEPT !.tok = token], "getAsset")
      [] l.pc = "getAsset" ->
           LET asset == getAsset(db, l.tok.assetId) IN
           IF ~Found(asset) THEN Ret(db, l, 404)
           ELSE Go(db, [l EXCEPT !.asset = asset], "writeToken")
      [] l.pc = "writeToken" ->
           Go(IF l.tok.amount = l.amount
              THEN deleteToken(db, l.tid)
              ELSE updateTokenAmount(db, l.tid, l.tok.amount - l.amount),
              l, "updateAssetRemainingSupply")
      [] l.pc = "updateAssetRemainingSupply" ->
           Go(updateAssetRemainingSupply(db, l.tok.assetId,
                                         l.asset.remainingSupply + l.amount),
              l, "createTransfer")
      [] l.pc = "createTransfer" ->
           Ret(createTransfer(db, l.tok.assetId, l.tok.ownerId, NoUser, l.amount,
                              "ADMIN_REVOKE"), l, 200)

\* PATCH /api/admin/tokens/:tokenId
AdminSetAmountRoute(db, l, pick) ==
    CASE l.pc = "auth" ->
           LET u == getUser(db, l.caller) IN
           IF adminMiddleware(u) # 0 THEN Ret(db, l, adminMiddleware(u))
           ELSE IF l.amount < 0 THEN Ret(db, l, 400)
           ELSE Go(db, [l EXCEPT !.usr = u], "getToken")
      [] l.pc = "getToken" ->
           LET token == getToken(db, l.tid) IN
           IF ~Found(token) THEN Ret(db, l, 404)
           ELSE Go(db, [l EXCEPT !.tok = token], "getAsset")
      [] l.pc = "getAsset" ->
           LET asset == getAsset(db, l.tok.assetId)
               difference == l.amount - l.tok.amount
           IN IF ~Found(asset) THEN Ret(db, l, 404)
              ELSE IF difference > 0 /\ difference > asset.remainingSupply
                   THEN Ret(db, l, 400)
              ELSE Go(db, [l EXCEPT !.asset = asset], "writeToken")
      [] l.pc = "writeToken" ->
           Go(IF l.amount = 0
              THEN deleteToken(db, l.tid)
              ELSE updateTokenAmount(db, l.tid, l.amount),
              l, "updateAssetRemainingSupply")
      [] l.pc = "updateAssetRemainingSupply" ->
           LET difference == l.amount - l.tok.amount IN
           IF difference # 0
           THEN Go(updateAssetRemainingSupply(db, l.asset.id,
                                              l.asset.remainingSupply - difference),
                   l, "createTransfer")
           ELSE Ret(updateAssetRemainingSupply(db, l.asset.id,
                                               l.asset.remainingSupply - difference),
                    l, 200)
      [] l.pc = "createTransfer" ->
           LET difference == l.amount - l.tok.amount
               reason == IF l.reason # "" THEN l.reason
                         ELSE IF difference > 0 THEN "MINT" ELSE "ADMIN_REVOKE"
           IN \* the insert of a reason that is no value of the enum is an error
              IF reason \notin TransferReasons THEN Throw(db, l)
              ELSE Ret(createTransfer(db, l.tok.assetId,
                                      IF difference < 0 THEN l.tok.ownerId ELSE NoUser,
                                      IF difference > 0 THEN l.tok.ownerId ELSE NoUser,
                                      Abs(difference), reason),
                       l, 200)

----------------------------------------------------------------------------
(* routes.ts: order book *)

\* CreateOrderRoute with the order created but the seller's row not debited
CreateOrderRouteNoEscrow(db, l, pick) ==
    CASE l.pc = "auth" ->
           LET u == getUser(db, l.caller) IN
           IF kycApprovedMiddleware(u) # 0 THEN Ret(db, l, kycApprovedMiddleware(u))
           ELSE IF l.aid = "" \/ l.amount = 0 \/ l.price = 0 THEN Ret(db, l, 400)
           ELSE Go(db, [l EXCEPT !.usr = u], "getTokenByAssetAndUser")
      [] l.pc = "getTokenByAssetAndUser" ->
           IF ~Found(pick) \/ pick.amount < l.amount THEN Ret(db, l, 400)
           ELSE Go(db, [l EXCEPT !.tok = pick], "writeToken")
      [] l.pc = "writeToken" ->
           LET newCostBasis ==
                   IF l.tok.amount > 0
                   THEN RoundDiv(l.tok.costBasis * (l.tok.amount - l.amount), l.tok.amount)
                   ELSE 0
           IN Go(updateTokenCostBasis(db, l.tok.id, newCostBasis, l.tok.amount),
                 l, "createOrder")
      [] l.pc = "createOrder" ->
           Go(createOrder(db, l.caller, l.aid, l.amount, l.price), l, "createNotification")
      [] l.pc = "createNotification" ->
           Ret(notifyAll(db, Admins(db), "ORDER_APPROVAL"), l, 201)

\* POST /api/marketplace/order
CreateOrderRoute(db, l, pick) ==
    CASE l.pc = "auth" ->
           LET u == getUser(db, l.caller) IN
           IF kycApprovedMiddleware(u) # 0 THEN Ret(db, l, kycApprovedMiddleware(u))
           ELSE IF l.aid = "" \/ l.amount = 0 \/ l.price = 0 THEN Ret(db, l, 400)
           ELSE Go(db, [l EXCEPT !.usr = u], "getTokenByAssetAndUser")
      [] l.pc = "getTokenByAssetAndUser" ->
           IF ~Found(pick) \/ pick.amount < l.amount THEN Ret(db, l, 400)
           ELSE Go(db, [l EXCEPT !.tok = pick], "writeToken")
      [] l.pc = "writeToken" ->
           LET newCostBasis ==
                   IF l.tok.amount > 0
                   THEN RoundDiv(l.tok.costBasis * (l.tok.amount - l.amount), l.tok.amount)
                   ELSE 0
           IN Go(updateTokenCostBasis(db, l.tok.id, newCostBasis, l.tok.amount - l.amount),
                 l, "createOrder")
      [] l.pc = "createOrder" ->
           Go(createOrder(db, l.caller, l.aid, l.amount, l.price), l, "createNotification")
      [] l.pc = "createNotification" ->
           Ret(notifyAll(db, Admins(db), "ORDER_APPROVAL"), l, 201)

\* FillOrderRoute without the check that the buyer is not the seller
FillOrderRouteSelfTrade(db, l, pick) ==
    CASE l.pc = "auth" ->
           LET u == getUser(db, l.caller) IN
           IF kycApprovedMiddleware(u) # 0 THEN Ret(db, l, kycApprovedMiddleware(u))
           ELSE Go(db, [l EXCEPT !.usr = u], "getOrder")
      [] l.pc = "getOrder" ->
           LET order == getOrder(db, l.oid) IN
           IF ~Found(order) THEN Ret(db, l, 404)
           ELSE IF order.status # "OPEN" THEN Ret(db, l, 400)
           ELSE IF order.approvalStatus # "APPROVED" THEN Ret(db, l, 400)
           ELSE Go(db, [l EXCEPT !.ord = order], "getUser")
      [] l.pc = "getUser" ->
           LET seller == getUser(db, l.ord.sellerId) IN
           IF ~Found(seller) THEN Ret(db, l, 400)
           ELSE IF seller.kycStatus # "APPROVED" \/ seller.isFrozen THEN Ret(db, l, 400)
           ELSE Go(db, [l EXCEPT !.usr2 = seller], "getTokenByAssetAndUser")
      [] l.pc = "getTokenByAssetAndUser" ->
           Go(db, [l EXCEPT !.tok = pick], "writeToken")
      [] l.pc = "writeToken" ->
           Go(creditToken(db, l.tok, l.ord.assetId, l.caller, l.ord.tokenAmount,
                          l.ord.pricePerToken * l.ord.tokenAmount),
              l, "updateOrderStatus")
      [] l.pc = "updateOrderStatus" ->
           Go(updateOrderStatus(db, l.ord.id, "FILLED", l.caller), l, "createTransfer")
      [] l.pc = "createTransfer" ->
           Go(createTransfer(db, l.ord.assetId, l.ord.sellerId, l.caller,
                             l.ord.tokenAmount, "TRADE"),
              l, "createPriceHistory")
      [] l.pc = "createPriceHistory" ->
           Go(createPriceHistory(db, l.ord.assetId, l.ord.pricePerToken,
                                 l.ord.tokenAmount, l.ord.id),
              l, "createNotification")
      [] l.pc = "createNotification" ->
           Go(createNotification(db, l.ord.sellerId, "ORDER_FILLED"),
              l, "createNotification2")
      [] l.pc = "createNotification2" ->
           Ret(createNotification(db, l.caller, "ORDER_FILLED"), l, 200)

\* FillOrderRoute without the check that the order was approved
FillOrderRouteUnapproved(db, l, pick) ==
    CASE l.pc = "auth" ->
           LET u == getUser(db, l.caller) IN
           IF kycApprovedMiddleware(u) # 0 THEN Ret(db, l, kycApprovedMiddleware(u))
           ELSE Go(db, [l EXCEPT !.usr = u], "getOrder")
      [] l.pc = "getOrder" ->
           LET order == getOrder(db, l.oid) IN
           IF ~Found(order) THEN Ret(db, l, 404)
           ELSE IF order.status # "OPEN" THEN Ret(db, l, 400)
           ELSE IF order.sellerId = l.caller THEN Ret(db, l, 400)
           ELSE Go(db, [l EXCEPT !.ord = order], "getUser")
      [] l.pc = "getUser" ->
           LET seller == getUser(db, l.ord.sellerId) IN
           IF ~Found(seller) THEN Ret(db, l, 400)
           ELSE IF seller.kycStatus # "APPROVED" \/ seller.isFrozen THEN Ret(db, l, 400)
           ELSE Go(db, [l EXCEPT !.usr2 = seller], "getTokenByAssetAndUser")
      [] l.pc = "getTokenByAssetAndUser" ->
           Go(db, [l EXCEPT !.tok = pick], "writeToken")
      [] l.pc = "writeToken" ->
           Go(creditToken(db, l.tok, l.ord.assetId, l.caller, l.ord.tokenAmount,
                          l.ord.pricePerToken * l.ord.tokenAmount),
              l, "updateOrderStatus")
      [] l.pc = "updateOrderStatus" ->
           Go(updateOrderStatus(db, l.ord.id, "FILLED", l.caller), l, "createTransfer")
      [] l.pc = "createTransfer" ->
           Go(createTransfer(db, l.ord.assetId, l.ord.sellerId, l.caller,
                             l.ord.tokenAmount, "TRADE"),
              l, "createPriceHistory")
      [] l.pc = "createPriceHistory" ->
           Go(createPriceHistory(db, l.ord.assetId, l.ord.pricePerToken,
                                 l.ord.tokenAmount, l.ord.id),
              l, "createNotification")
      [] l.pc = "createNotification" ->
           Go(createNotification(db, l.ord.sellerId, "ORDER_FILLED"),
              l, "createNotification2")
      [] l.pc = "createNotification2" ->
           Ret(createNotification(db, l.caller, "ORDER_FILLED"), l, 200)

\* FillOrderRoute without the re-check of the seller's KYC status and hold
FillOrderRouteSellerUnchecked(db, l, pick) ==
    CASE l.pc = "auth" ->
           LET u == getUser(db, l.caller) IN
           IF kycApprovedMiddleware(u) # 0 THEN Ret(db, l, kycApprovedMiddleware(u))
           ELSE Go(db, [l EXCEPT !.usr = u], "getOrder")
      [] l.pc = "getOrder" ->
           LET order == getOrder(db, l.oid) IN
           IF ~Found(order) THEN Ret(db, l, 404)
           ELSE IF order.status # "OPEN" THEN Ret(db, l, 400)
           ELSE IF order.approvalStatus # "APPROVED" THEN Ret(db, l, 400)
           ELSE IF order.sellerId = l.caller THEN Ret(db, l, 400)
           ELSE Go(db, [l EXCEPT !.ord = order], "getUser")
      [] l.pc = "getUser" ->
           LET seller == getUser(db, l.ord.sellerId) IN
           IF ~Found(seller) THEN Ret(db, l, 400)
           ELSE Go(db, [l EXCEPT !.usr2 = seller], "getTokenByAssetAndUser")
      [] l.pc = "getTokenByAssetAndUser" ->
           Go(db, [l EXCEPT !.tok = pick], "writeToken")
      [] l.pc = "writeToken" ->
           Go(creditToken(db, l.tok, l.ord.assetId, l.caller, l.ord.tokenAmount,
                          l.ord.pricePerToken * l.ord.tokenAmount),
              l, "updateOrderStatus")
      [] l.pc = "updateOrderStatus" ->
           Go(updateOrderStatus(db, l.ord.id, "FILLED", l.caller), l, "createTransfer")
      [] l.pc = "createTransfer" ->
           Go(createTransfer(db, l.ord.assetId, l.ord.sellerId, l.caller,
                             l.ord.tokenAmount, "TRADE"),
              l, "createPriceHistory")
      [] l.pc = "createPriceHistory" ->
           Go(createPriceHistory(db, l.ord.assetId, l.ord.pricePerToken,
                                 l.ord.tokenAmount, l.ord.id),
              l, "createNotification")
      [] l.pc = "createNotification" ->
           Go(createNotification(db, l.ord.sellerId, "ORDER_FILLED"),
              l, "createNotification2")
      [] l.pc = "createNotification2" ->
           Ret(createNotification(db, l.caller, "ORDER_FILLED"), l, 200)

\* POST /api/marketplace/order/:id/fill
FillOrderRoute(db, l, pick) ==
    CASE l.pc = "auth" ->
           LET u == getUser(db, l.caller) IN
           IF kycApprovedMiddleware(u) # 0 THEN Ret(db, l, kycApprovedMiddleware(u))
           ELSE Go(db, [l EXCEPT !.usr = u], "getOrder")
      [] l.pc = "getOrder" ->
           LET order == getOrder(db, l.oid) IN
           IF ~Found(order) THEN Ret(db, l, 404)
           ELSE IF order.status # "OPEN" THEN Ret(db, l, 400)
           ELSE IF order.approvalStatus # "APPROVED" THEN Ret(db, l, 400)
           ELSE IF order.sellerId = l.caller THEN Ret(db, l, 400)
           ELSE Go(db, [l EXCEPT !.ord = order], "getUser")
      [] l.pc = "getUser" ->
           LET seller == getUser(db, l.ord.sellerId) IN
           IF ~Found(seller) THEN Ret(db, l, 400)
           ELSE IF seller.kycStatus # "APPROVED" \/ seller.isFrozen THEN Ret(db, l, 400)
           ELSE Go(db, [l EXCEPT !.usr2 = seller], "getTokenByAssetAndUser")
      [] l.pc = "getTokenByAssetAndUser" ->
           Go(db, [l EXCEPT !.tok = pick], "writeToken")
      [] l.pc = "writeToken" ->
           Go(creditToken(db, l.tok, l.ord.assetId, l.caller, l.ord.tokenAmount,
                          l.ord.pricePerToken * l.ord.tokenAmount),
              l, "updateOrderStatus")
      [] l.pc = "updateOrderStatus" ->
           Go(updateOrderStatus(db, l.ord.id, "FILLED", l.caller), l, "createTransfer")
      [] l.pc = "createTransfer" ->
           Go(createTransfer(db, l.ord.assetId, l.ord.sellerId, l.caller,
                             l.ord.tokenAmount, "TRADE"),
              l, "createPriceHistory")
      [] l.pc = "createPriceHistory" ->
           Go(createPriceHistory(db, l.ord.assetId, l.ord.pricePerToken,
                                 l.ord.tokenAmount, l.ord.id),
              l, "createNotification")
      [] l.pc = "createNotification" ->
           Go(createNotification(db, l.ord.sellerId, "ORDER_FILLED"),
              l, "createNotification2")
      [] l.pc = "createNotification2" ->
           Ret(createNotification(db, l.caller, "ORDER_FILLED"), l, 200)

\* returnedCostBasis at the NAV the tokens were booked at when they were listed
returnedCostBasisAtListing(asset, order) ==
    NavPrice * order.tokenAmount

\* cost basis handed back with the tokens of a cancelled or rejected order
returnedCostBasis(asset, order) ==
    (IF Found(asset) THEN asset.navPrice ELSE 0) * order.tokenAmount

\* CancelOrderRoute behind authMiddleware only
CancelOrderRouteUngated(db, l, pick) ==
    CASE l.pc = "auth" ->
           LET u == getUser(db, l.caller) IN
           IF ~Found(u) THEN Ret(db, l, 401)
           ELSE Go(db, [l EXCEPT !.usr = u], "getOrder")
      [] l.pc = "getOrder" ->
           LET order == getOrder(db, l.oid) IN
           IF ~Found(order) THEN Ret(db, l, 404)
           ELSE IF order.status # "OPEN" THEN Ret(db, l, 400)
           ELSE IF order.sellerId # l.caller THEN Ret(db, l, 403)
           ELSE Go(db, [l EXCEPT !.ord = order], "getAsset")
      [] l.pc = "getAsset" ->
           Go(db, [l EXCEPT !.asset = getAsset(db, l.ord.assetId)],
              "getTokenByAssetAndUser")
      [] l.pc = "getTokenByAssetAndUser" ->
           Go(db, [l EXCEPT !.tok = pick], "writeToken")
      [] l.pc = "writeToken" ->
           Go(creditToken(db, l.tok, l.ord.assetId, l.caller, l.ord.tokenAmount,
                          returnedCostBasis(l.asset, l.ord)),
              l, "updateOrderStatus")
      [] l.pc = "updateOrderStatus" ->
           Ret(updateOrderStatus(db, l.ord.id, "CANCELLED", NoUser), l, 200)

\* CancelOrderRoute without the check that the caller is the order's seller
CancelOrderRouteAnyCaller(db, l, pick) ==
    CASE l.pc = "auth" ->
           LET u == getUser(db, l.caller) IN
           IF kycApprovedMiddleware(u) # 0 THEN Ret(db, l, kycApprovedMiddleware(u))
           ELSE Go(db, [l EXCEPT !.usr = u], "getOrder")
      [] l.pc = "getOrder" ->
           LET order == getOrder(db, l.oid) IN
           IF ~Found(order) THEN Ret(db, l, 404)
           ELSE IF order.status # "OPEN" THEN Ret(db, l, 400)
           ELSE Go(db, [l EXCEPT !.ord = order], "getAsset")
      [] l.pc = "getAsset" ->
           Go(db, [l EXCEPT !.asset = getAsset(db, l.ord.assetId)],
              "getTokenByAssetAndUser")
      [] l.pc = "getTokenByAssetAndUser" ->
           Go(db, [l EXCEPT !.tok = pick], "writeToken")
      [] l.pc = "writeToken" ->
           Go(creditToken(db, l.tok, l.ord.assetId, l.caller, l.ord.tokenAmount,
                          returnedCostBasis(l.asset, l.ord)),
              l, "updateOrderStatus")
      [] l.pc = "updateOrderStatus" ->
           Ret(updateOrderStatus(db, l.ord.id, "CANCELLED", NoUser), l, 200)

\* POST /api/marketplace/order/:id/cancel
CancelOrderRoute(db, l, pick) ==
    CASE l.pc = "auth" ->
           LET u == getUser(db, l.caller) IN
           IF kycApprovedMiddleware(u) # 0 THEN Ret(db, l, kycApprovedMiddleware(u))
           ELSE Go(db, [l EXCEPT !.usr = u], "getOrder")
      [] l.pc = "getOrder" ->
           LET order == getOrder(db, l.oid) IN
           IF ~Found(order) THEN Ret(db, l, 404)
           ELSE IF order.status # "OPEN" THEN Ret(db, l, 400)
           ELSE IF order.sellerId # l.caller THEN Ret(db, l, 403)
           ELSE Go(db, [l EXCEPT !.ord = order], "getAsset")
      [] l.pc = "getAsset" ->
           Go(db, [l EXCEPT !.asset = getAsset(db, l.ord.assetId)],
              "getTokenByAssetAndUser")
      [] l.pc = "getTokenByAssetAndUser" ->
           Go(db, [l EXCEPT !.tok = pick], "writeToken")
      [] l.pc = "writeToken" ->
           Go(creditToken(db, l.tok, l.ord.assetId, l.caller, l.ord.tokenAmount,
                          returnedCostBasis(l.asset, l.ord)),
              l, "updateOrderStatus")
      [] l.pc = "updateOrderStatus" ->
           Ret(updateOrderStatus(db, l.ord.id, "CANCELLED", NoUser), l, 200)

\* POST /api/admin/orders/:id/approve
ApproveOrderRoute(db, l, pick) ==
    CASE l.pc = "auth" ->
           LET u == getUser(db, l.caller) IN
           IF adminMiddleware(u) # 0 THEN Ret(db, l, adminMiddleware(u))
           ELSE Go(db, [l EXCEPT !.usr = u], "getOrder")
      [] l.pc = "getOrder" ->
           LET order == getOrder(db, l.oid) IN
           IF ~Found(order) THEN Ret(db, l, 404)
           ELSE IF order.status # "OPEN" THEN Ret(db, l, 400)
           ELSE Go(db, [l EXCEPT !.ord = order], "updateOrderApprovalStatus")
      [] l.pc = "updateOrderApprovalStatus" ->
           Go(updateOrderApprovalStatus(db, l.ord.id, "APPROVED"), l, "createNotification")
      [] l.pc = "createNotification" ->
           Ret(createNotification(db, l.ord.sellerId, "ORDER_APPROVAL"), l, 200)

\* RejectOrderRoute that refuses the order of a seller whose account is frozen
RejectOrderRouteSellerChecked(db, l, pick) ==
    CASE l.pc = "auth" ->
           LET u == getUser(db, l.caller) IN
           IF adminMiddleware(u) # 0 THEN Ret(db, l, adminMiddleware(u))
           ELSE Go(db, [l EXCEPT !.usr = u], "getOrder")
      [] l.pc = "getOrder" ->
           LET order == getOrder(db, l.oid) IN
           IF ~Found(order) THEN Ret(db, l, 404)
           ELSE IF order.status # "OPEN" THEN Ret(db, l, 400)
           ELSE IF getUser(db, order.sellerId).isFrozen THEN Ret(db, l, 403)
           ELSE Go(db, [l EXCEPT !.ord = order], "updateOrderApprovalStatus")
      [] l.pc = "updateOrderApprovalStatus" ->
           Go(updateOrderApprovalStatus(db, l.ord.id, "REJECTED"), l, "updateOrderStatus")
      [] l.pc = "updateOrderStatus" ->
           Go(updateOrderStatus(db, l.ord.id, "CANCELLED", NoUser), l, "getAsset")
      [] l.pc = "getAsset" ->
           Go(db, [l EXCEPT !.asset = getAsset(db, l.ord.assetId)],
              "getTokenByAssetAndUser")
      [] l.pc = "getTokenByAssetAndUser" ->
           Go(db, [l EXCEPT !.tok = pick], "writeToken")
      [] l.pc = "writeToken" ->
           Go(creditToken(db, l.tok, l.ord.assetId, l.ord.sellerId, l.ord.tokenAmount,
                          returnedCostBasis(l.asset, l.ord)),
              l, "createNotification")
      [] l.pc = "createNotification" ->
           Ret(createNotification(db, l.ord.sellerId, "ORDER_APPROVAL"), l, 200)

\* RejectOrderRoute without the check that the order is still OPEN
RejectOrderRouteAnyStatus(db, l, pick) ==
    CASE l.pc = "auth" ->
           LET u == getUser(db, l.caller) IN
           IF adminMiddleware(u) # 0 THEN Ret(db, l, adminMiddleware(u))
           ELSE Go(db, [l EXCEPT !.usr = u], "getOrder")
      [] l.pc = "getOrder" ->
           LET order == getOrder(db, l.oid) IN
           IF ~Found(order) THEN Ret(db, l, 404)
           ELSE Go(db, [l EXCEPT !.ord = order], "updateOrderApprovalStatus")
      [] l.pc = "updateOrderApprovalStatus" ->
           Go(updateOrderApprovalStatus(db, l.ord.id, "REJECTED"), l, "updateOrderStatus")
      [] l.pc = "updateOrderStatus" ->
           Go(updateOrderStatus(db, l.ord.id, "CANCELLED", NoUser), l, "getAsset")
      [] l.pc = "getAsset" ->
           Go(db, [l EXCEPT !.asset = getAsset(db, l.ord.assetId)],
              "getTokenByAssetAndUser")
      [] l.pc = "getTokenByAssetAndUser" ->
           Go(db, [l EXCEPT !.tok = pick], "writeToken")
      [] l.pc = "writeToken" ->
           Go(creditToken(db, l.tok, l.ord.assetId, l.ord.sellerId, l.ord.tokenAmount,
                          returnedCostBasis(l.asset, l.ord)),
              l, "createNotification")
      [] l.pc = "createNotification" ->
           Ret(createNotification(db, l.ord.sellerId, "ORDER_APPROVAL"), l, 200)

\* RejectOrderRoute that marks the order REJECTED but leaves its status alone
RejectOrderRouteKeepOpen(db, l, pick) ==
    CASE l.pc = "auth" ->
           LET u == getUser(db, l.caller) IN
           IF adminMiddleware(u) # 0 THEN Ret(db, l, adminMiddleware(u))
           ELSE Go(db, [l EXCEPT !.usr = u], "getOrder")
      [] l.pc = "getOrder" ->
           LET order == getOrder(db, l.oid) IN
           IF ~Found(order) THEN Ret(db, l, 404)
           ELSE IF order.status # "OPEN" THEN Ret(db, l, 400)
           ELSE Go(db, [l EXCEPT !.ord = order], "updateOrderApprovalStatus")
      [] l.pc = "updateOrderApprovalStatus" ->
           Go(updateOrderApprovalStatus(db, l.ord.id, "REJECTED"), l, "getAsset")
      [] l.pc = "getAsset" ->
           Go(db, [l EXCEPT !.asset = getAsset(db, l.ord.assetId)],
              "getTokenByAssetAndUser")
      [] l.pc = "getTokenByAssetAndUser" ->
           Go(db, [l EXCEPT !.tok = pick], "writeToken")
      [] l.pc = "writeToken" ->
           Go(creditToken(db, l.tok, l.ord.assetId, l.ord.sellerId, l.ord.tokenAmount,
                          returnedCostBasis(l.asset, l.ord)),
              l, "createNotification")
      [] l.pc = "createNotification" ->
           Ret(createNotification(db, l.ord.sellerId, "ORDER_APPROVAL"), l, 200)

\* POST /api/admin/orders/:id/reject
RejectOrderRoute(db, l, pick) ==
    CASE l.pc = "auth" ->
           LET u == getUser(db, l.caller) IN
           IF adminMiddleware(u) # 0 THEN Ret(db, l, adminMiddleware(u))
           ELSE Go(db, [l EXCEPT !.usr = u], "getOrder")
      [] l.pc = "getOrder" ->
           LET order == getOrder(db, l.oid) IN
           IF ~Found(order) THEN Ret(db, l, 404)
           ELSE IF order.status # "OPEN" THEN Ret(db, l, 400)
           ELSE Go(db, [l EXCEPT !.ord = order], "updateOrderApprovalStatus")
      [] l.pc = "updateOrderApprovalStatus" ->
           Go(updateOrderApprovalStatus(db, l.ord.id, "REJECTED"), l, "updateOrderStatus")
      [] l.pc = "updateOrderStatus" ->
           Go(updateOrderStatus(db, l.ord.id, "CANCELLED", NoUser), l, "getAsset")
      [] l.pc = "getAsset" ->
           Go(db, [l EXCEPT !.asset = getAsset(db, l.ord.assetId)],
              "getTokenByAssetAndUser")
      [] l.pc = "getTokenByAssetAndUser" ->
           Go(db, [l EXCEPT !.tok = pick], "writeToken")
      [] l.pc = "writeToken" ->
           Go(creditToken(db, l.tok, l.ord.assetId, l.ord.sellerId, l.ord.tokenAmount,
                          returnedCostBasis(l.asset, l.ord)),
              l, "createNotification")
      [] l.pc = "createNotification" ->
           Ret(createNotification(db, l.ord.sellerId, "ORDER_APPROVAL"), l, 200)

----------------------------------------------------------------------------
(* routes.ts: token requests *)

\* POST /api/marketplace/token-request
TokenRequestRoute(db, l, pick) ==
    CASE l.pc = "auth" ->
           LET u == getUser(db, l.caller) IN
           IF kycApprovedMiddleware(u) # 0 THEN Ret(db, l, kycApprovedMiddleware(u))
           ELSE IF l.aid = "" \/ l.amount = 0 THEN Ret(db, l, 400)
           ELSE Go(db, [l EXCEPT !.usr = u], "getAsset")
      [] l.pc = "getAsset" ->
           LET asset == getAsset(db, l.aid) IN
           IF ~Found(asset) THEN Ret(db, l, 404)
           ELSE Go(db, [l EXCEPT !.asset = asset], "createTokenRequest")
      [] l.pc = "createTokenRequest" ->
           Go(createTokenRequest(db, l.caller, l.aid, l.amount), l, "createNotification")
      [] l.pc = "createNotification" ->
           Ret(notifyAll(db, Admins(db), "TOKEN_REQUEST"), l, 201)

\* ApproveTokenRequestRoute without the check that the request is still PENDING
ApproveTokenRequestRouteAnyStatus(db, l, pick) ==
    CASE l.pc = "auth" ->
           LET u == getUser(db, l.caller) IN
           IF adminMiddleware(u) # 0 THEN Ret(db, l, adminMiddleware(u))
           ELSE Go(db, [l EXCEPT !.usr = u], "getTokenRequests")
      [] l.pc = "getTokenRequests" ->
           LET request == getTokenRequest(db, l.rid) IN
           IF ~Found(request) THEN Ret(db, l, 404)
           ELSE Go(db, [l EXCEPT !.rq = request], "getAsset")
      [] l.pc = "getAsset" ->
           LET asset == getAsset(db, l.rq.assetId) IN
           IF ~Found(asset) THEN Ret(db, l, 404)
           ELSE IF asset.remainingSupply < l.rq.amount THEN Ret(db, l, 400)
           ELSE Go(db, [l EXCEPT !.asset = asset], "getTokenByAssetAndUser")
      [] l.pc = "getTokenByAssetAndUser" ->
           Go(db, [l EXCEPT !.tok = pick], "writeToken")
      [] l.pc = "writeToken" ->
           Go(creditToken(db, l.tok, l.rq.assetId, l.rq.userId, l.rq.amount,
                          l.asset.navPrice * l.rq.amount),
              l, "updateAssetRemainingSupply")
      [] l.pc = "updateAssetRemainingSupply" ->
           Go(updateAssetRemainingSupply(db, l.asset.id,
                                         l.asset.remainingSupply - l.rq.amount),
              l, "updateTokenRequestStatus")
      [] l.pc = "updateTokenRequestStatus" ->
           Go(updateTokenRequestStatus(db, l.rid, "APPROVED"), l, "createTransfer")
      [] l.pc = "createTransfer" ->
           Go(createTransfer(db, l.rq.assetId, NoUser, l.rq.userId, l.rq.amount, "MINT"),
              l, "createNotification")
      [] l.pc = "createNotification" ->
           Ret(createNotification(db, l.rq.userId, "TOKEN_REQUEST"), l, 200)

\* POST /api/admin/token-requests/:id/approve
ApproveTokenRequestRoute(db, l, pick) ==
    CASE l.pc = "auth" ->
           LET u == getUser(db, l.caller) IN
           IF adminMiddleware(u) # 0 THEN Ret(db, l, adminMiddleware(u))
           ELSE Go(db, [l EXCEPT !.usr = u], "getTokenRequests")
      [] l.pc = "getTokenRequests" ->
           LET request == getTokenRequest(db, l.rid) IN
           IF ~Found(request) THEN Ret(db, l, 404)
           ELSE IF request.status # "PENDING" THEN Ret(db, l, 400)
           ELSE Go(db, [l EXCEPT !.rq = request], "getAsset")
      [] l.pc = "getAsset" ->
           LET asset == getAsset(db, l.rq.assetId) IN
           IF ~Found(asset) THEN Ret(db, l, 404)
           ELSE IF asset.remainingSupply < l.rq.amount THEN Ret(db, l, 400)
           ELSE Go(db, [l EXCEPT !.asset = asset], "getTokenByAssetAndUser")
      [] l.pc = "getTokenByAssetAndUser" ->
           Go(db, [l EXCEPT !.tok = pick], "writeToken")
      [] l.pc = "writeToken" ->
           Go(creditToken(db, l.tok, l.rq.assetId, l.rq.userId, l.rq.amount,
                          l.asset.navPrice * l.rq.amount),
              l, "updateAssetRemainingSupply")
      [] l.pc = "updateAssetRemainingSupply" ->
           Go(updateAssetRemainingSupply(db, l.asset.id,
                                         l.asset.remainingSupply - l.rq.amount),
              l, "updateTokenRequestStatus")
      [] l.pc = "updateTokenRequestStatus" ->
           Go(updateTokenRequestStatus(db, l.rid, "APPROVED"), l, "createTransfer")
      [] l.pc = "createTransfer" ->
           Go(createTransfer(db, l.rq.assetId, NoUser, l.rq.userId, l.rq.amount, "MINT"),
              l, "createNotification")
      [] l.pc = "createNotification" ->
           Ret(createNotification(db, l.rq.userId, "TOKEN_REQUEST"), l, 200)

\* POST /api/admin/token-requests/:id/reject
RejectTokenRequestRoute(db, l, pick) ==
    CASE l.pc = "auth" ->
           LET u == getUser(db, l.caller) IN
           IF adminMiddleware(u) # 0 THEN Ret(db, l, adminMiddleware(u))
           ELSE Go(db, [l EXCEPT !.usr = u], "getTokenRequests")
      [] l.pc = "getTokenRequests" ->
           LET request == getTokenRequest(db, l.rid) IN
           IF ~Found(request) THEN Ret(db, l, 404)
           ELSE IF request.status # "PENDING" THEN Ret(db, l, 400)
           ELSE Go(db, [l EXCEPT !.rq = request], "updateTokenRequestStatus")
      [] l.pc = "updateTokenRequestStatus" ->
           Go(updateTokenRequestStatus(db, l.rid, "REJECTED"), l, "createNotification")
      [] l.pc = "createNotification" ->
           Ret(createNotification(db, l.rq.userId, "TOKEN_REQUEST"), l, 200)

----------------------------------------------------------------------------
(* routes.ts: KYC review and account holds *)

\* POST /api/admin/users/:id/approve and /reject
ReviewUserRoute(db, l, status) ==
    CASE l.pc = "auth" ->
           LET u == getUser(db, l.caller) IN
           IF adminMiddleware(u) # 0 THEN Ret(db, l, adminMiddleware(u))
           ELSE Go(db, [l EXCEPT !.usr = u], "updateUserKycStatus")
      [] l.pc = "updateUserKycStatus" ->
           IF ~Found(getUser(db, l.uid)) THEN Ret(db, l, 404)
           ELSE Go(updateUserKycStatus(db, l.uid, status), l, "createNotification")
      [] l.pc = "createNotification" ->
           Ret(createNotification(db, l.uid, "KYC_STATUS"), l, 200)

\* POST /api/admin/users/:id/freeze and /unfreeze
HoldUserRoute(db, l, isFrozen) ==
    CASE l.pc = "auth" ->
           LET u == getUser(db, l.caller) IN
           IF adminMiddleware(u) # 0 THEN Ret(db, l, adminMiddleware(u))
           ELSE Go(db, [l EXCEPT !.usr = u], "updateUserFrozenStatus")
      [] l.pc = "updateUserFrozenStatus" ->
           IF ~Found(getUser(db, l.uid)) THEN Ret(db, l, 404)
           ELSE Go(updateUserFrozenStatus(db, l.uid, isFrozen), l, "createNotification")
      [] l.pc = "createNotification" ->
           Ret(createNotification(db, l.uid, "ACCOUNT_STATUS"), l, 200)

----------------------------------------------------------------------------
(* routes.ts: NAV revision *)

\* ReviseNavRoute that sets the asset's NAV without recording it
ReviseNavRouteNoHistory(db, l, pick) ==
    CASE l.pc = "auth" ->
           LET u == getUser(db, l.caller) IN
           IF adminMiddleware(u) # 0 THEN Ret(db, l, adminMiddleware(u))
           ELSE IF l.price = 0 THEN Ret(db, l, 400)
           ELSE Go(db, [l EXCEPT !.usr = u], "getAsset")
      [] l.pc = "getAsset" ->
           LET asset == getAsset(db, l.aid) IN
           IF ~Found(asset) THEN Ret(db, l, 404)
           ELSE Go(db, [l EXCEPT !.asset = asset], "updateAssetNavPrice")
      [] l.pc = "updateAssetNavPrice" ->
           Ret(updateAssetNavPrice(db, l.aid, l.price), l, 200)

\* POST /api/admin/assets/:id/nav (navPrice sent as a JSON number)
ReviseNavRoute(db, l, pick) ==
    CASE l.pc = "auth" ->
           LET u == getUser(db, l.caller) IN
           IF adminMiddleware(u) # 0 THEN Ret(db, l, adminMiddleware(u))
           ELSE IF l.price = 0 THEN Ret(db, l, 400)
           ELSE Go(db, [l EXCEPT !.usr = u], "getAsset")
      [] l.pc = "getAsset" ->
           LET asset == getAsset(db, l.aid) IN
           IF ~Found(asset) THEN Ret(db, l, 404)
           ELSE Go(db, [l EXCEPT !.asset = asset], "createNavHistory")
      [] l.pc = "createNavHistory" ->
           Go(createNavHistory(db, l.aid, l.price,
                               IF l.reason # "" THEN l.reason ELSE "revaluation"),
              l, "updateAssetNavPrice")
      [] l.pc = "updateAssetNavPrice" ->
           Ret(updateAssetNavPrice(db, l.aid, l.price), l, 200)

----------------------------------------------------------------------------
(* Serving a request *)

\* Express routing: the handler serving the request
Step(db, l, pick) ==
    CASE l.op = "mint" -> MintRoute(db, l, pick)
      [] l.op = "revoke" -> RevokeRoute(db, l, pick)
      [] l.op = "adminSetAmount" -> AdminSetAmountRoute(db, l, pick)
      [] l.op = "createOrder" -> CreateOrderRoute(db, l, pick)
      [] l.op = "fillOrder" -> FillOrderRoute(db, l, pick)
      [] l.op = "cancelOrder" -> CancelOrderRoute(db, l, pick)
      [] l.op = "approveOrder" -> ApproveOrderRoute(db, l, pick)
      [] l.op = "rejectOrder" -> RejectOrderRoute(db, l, pick)
      [] l.op = "tokenRequest" -> TokenRequestRoute(db, l, pick)
      [] l.op = "approveTokenRequest" -> ApproveTokenRequestRoute(db, l, pick)
      [] l.op = "rejectTokenRequest" -> RejectTokenRequestRoute(db, l, pick)
      [] l.op = "approveUser" -> ReviewUserRoute(db, l, "APPROVED")
      [] l.op = "rejectUser" -> ReviewUserRoute(db, l, "REJECTED")
      [] l.op = "freezeUser" -> HoldUserRoute(db, l, TRUE)
      [] l.op = "unfreezeUser" -> HoldUserRoute(db, l, FALSE)
      [] l.op = "reviseNav" -> ReviseNavRoute(db, l, pick)

\* (asset, owner) a route passes to getTokenByAssetAndUser
LookupKey(l) ==
    CASE l.op \in {"mint"} -> <<l.aid, l.uid>>
      [] l.op \in {"createOrder"} -> <<l.aid, l.caller>>
      [] l.op \in {"fillOrder", "cancelOrder"} -> <<l.ord.assetId, l.caller>>
      [] l.op \in {"rejectOrder"} -> <<l.ord.assetId, l.ord.sellerId>>
      [] l.op \in {"approveTokenRequest"} -> <<l.rq.assetId, l.rq.userId>>

\* what getTokenByAssetAndUser may return at the step about to run: any of the
\* matching rows, or undefined when there is none
PickSet(db, l) ==
    IF l.pc = "getTokenByAssetAndUser"
    THEN LET rows == TokensByAssetAndUser(db, LookupKey(l)[1], LookupKey(l)[2])
         IN IF rows = {} THEN {NoRow} ELSE rows
    ELSE {NoRow}

\* every outcome of running the handler from l to its response, alone
RECURSIVE Runs(_, _)
Runs(db, l) ==
    IF l.pc = "done" THEN {[db |-> db, l |-> l]}
    ELSE UNION {Runs(s.db, s.l) : s \in {Step(db, l, pick) : pick \in PickSet(db, l)}}

\* the completed request as the access log keeps it
Summary(l) ==
    [op |-> l.op, caller |-> l.caller, aid |-> l.aid, uid |-> l.uid, tid |-> l.tid,
     oid |-> l.oid, rid |-> l.rid, amount |-> l.amount, price |-> l.price,
     reason |-> l.reason, res |-> l.res, pc |-> "done"]

Commit(db) ==
    /\ users' = db.users
    /\ assets' = db.assets
    /\ tokens' = db.tokens
    /\ tokenSeq' = db.tokenSeq
    /\ orders' = db.orders
    /\ transfers' = db.transfers
    /\ priceHistory' = db.priceHistory
    /\ navHistory' = db.navHistory
    /\ tokenRequests' = db.tokenRequests
    /\ notifications' = db.notifications

\* no handler is between two awaits
Quiescent == \A p \in Procs : inflight[p].pc \in {"idle", "done"}

\* Spec: the request is served to completion, nothing else running
Serve(req) ==
    /\ nreq < MaxReq
    /\ Quiescent
    /\ \E r \in Runs(DB, req) :
          /\ Commit(r.db)
          /\ last' = Summary(r.l)
    /\ nreq' = nreq + 1
    /\ UNCHANGED inflight

\* SpecConc: connection p accepts the request
Begin(p, req) ==
    /\ nreq < MaxConcReq
    /\ inflight[p].pc \in {"idle", "done"}
    /\ inflight' = [inflight EXCEPT ![p] = req]
    /\ nreq' = nreq + 1
    /\ UNCHANGED <<users, assets, tokens, tokenSeq, orders, transfers, priceHistory,
                   navHistory, tokenRequests, notifications, last>>

\* SpecConc: the handler on connection p runs up to its next await; once it
\* has responded the connection keeps the response until its next request
Await(p) ==
    /\ inflight[p].pc \notin {"idle", "done"}
    /\ \E pick \in PickSet(DB, inflight[p]) :
          LET r == Step(DB, inflight[p], pick) IN
          /\ Commit(r.db)
          /\ inflight' = [inflight EXCEPT ![p] =
                             IF r.l.pc = "done" THEN Summary(r.l) ELSE r.l]
    /\ UNCHANGED <<last, nreq>>

----------------------------------------------------------------------------
(* The requests clients send *)

TokenIds == 1..tokenSeq
OrderIds == 1..Len(orders)
RequestIds == 1..Len(tokenRequests)

MintRequests ==
    {Request("mint", c, a, u, 0, 0, 0, n, 0, "") :
        c \in AdminCallers, a \in AssetIds, u \in Investors, n \in Amounts}
RevokeRequests ==
    {Request("revoke", c, "", "", t, 0, 0, n, 0, "") :
        c \in AdminCallers, t \in TokenIds, n \in Amounts}
AdminSetAmountRequests ==
    {Request("adminSetAmount", c, "", "", t, 0, 0, n, 0, rs) :
        c \in AdminCallers, t \in TokenIds, n \in NewAmounts, rs \in Reasons}
CreateOrderRequests ==
    {Request("createOrder", c, a, "", 0, 0, 0, n, pr, "") :
        c \in InvestorCallers, a \in AssetIds, n \in Amounts, pr \in Prices}
FillOrderRequests ==
    {Request("fillOrder", c, "", "", 0, o, 0, 0, 0, "") : c \in InvestorCallers, o \in OrderIds}
CancelOrderRequests ==
    {Request("cancelOrder", c, "", "", 0, o, 0, 0, 0, "") : c \in InvestorCallers, o \in OrderIds}
ApproveOrderRequests ==
    {Request("approveOrder", c, "", "", 0, o, 0, 0, 0, "") : c \in AdminCallers, o \in OrderIds}
RejectOrderRequests ==
    {Request("rejectOrder", c, "", "", 0, o, 0, 0, 0, "") : c \in AdminCallers, o \in OrderIds}
TokenRequestRequests ==
    {Request("tokenRequest", c, a, "", 0, 0, 0, n, 0, "") :
        c \in InvestorCallers, a \in AssetIds, n \in Amounts}
ApproveTokenRequestRequests ==
    {Request("approveTokenRequest", c, "", "", 0, 0, r, 0, 0, "") :
        c \in AdminCallers, r \in RequestIds}
RejectTokenRequestRequests ==
    {Request("rejectTokenRequest", c, "", "", 0, 0, r, 0, 0, "") :
        c \in AdminCallers, r \in RequestIds}

ApproveUserRequests ==
    {Request("approveUser", c, "", u, 0, 0, 0, 0, 0, "") :
        c \in AdminCallers, u \in Investors}
RejectUserRequests ==
    {Request("rejectUser", c, "", u, 0, 0, 0, 0, 0, "") :
        c \in AdminCallers, u \in Investors}
FreezeUserRequests ==
    {Request("freezeUser", c, "", u, 0, 0, 0, 0, 0, "") :
        c \in AdminCallers, u \in Investors}
UnfreezeUserRequests ==
    {Request("unfreezeUser", c, "", u, 0, 0, 0, 0, 0, "") :
        c \in AdminCallers, u \in Investors}

\* the corrections the admin console sends
AdjustRequests ==
    {Request("adminSetAmount", c, "", "", t, 0, 0, n, 0, ClientReason) :
        c \in AdminCallers, t \in TokenIds, n \in NewAmounts}

ReviseNavRequests ==
    {Request("reviseNav", c, a, "", 0, 0, 0, 0, pr, "") :
        c \in AdminCallers, a \in AssetIds \cup {MissingAssetId}, pr \in NavPrices}

\* every request to a route behind adminMiddleware
AdminRequests ==
    MintRequests \cup RevokeRequests \cup AdminSetAmountRequests
        \cup ApproveOrderRequests \cup RejectOrderRequests
        \cup ApproveTokenRequestRequests \cup RejectTokenRequestRequests
        \cup ApproveUserRequests \cup RejectUserRequests
        \cup FreezeUserRequests \cup UnfreezeUserRequests \cup ReviseNavRequests

\* the same requests carrying the token of an investor
NonAdminRequests ==
    {[req EXCEPT !.caller = c] : req \in AdminRequests, c \in Investors}

----------------------------------------------------------------------------
(* Spec: requests one at a time *)

\* the store as server/seed.ts leaves it, with the two investors registered
\* and their KYC approved
Seed ==
    [users |-> [u \in Users |->
                  [id |-> u, role |-> IF u = "adm" THEN "ADMIN" ELSE "INVESTOR",
                   kycStatus |-> "APPROVED", isFrozen |-> FALSE]],
     assets |-> [a \in AssetIds |->
                   [id |-> a, totalSupply |-> TotalSupply,
                    remainingSupply |-> TotalSupply, navPrice |-> NavPrice]],
     tokens |-> {}, tokenSeq |-> 0, orders |-> <<>>, transfers |-> <<>>,
     priceHistory |-> <<>>, navHistory |-> <<>>, tokenRequests |-> <<>>,
     notifications |-> <<>>]

\* the store after the request has been served alone
After(db, req) == (CHOOSE r \in Runs(db, req) : TRUE).db

\* a market that is open: the admin minted 2 tokens to u1, u1 offered 1 of them
\* for sale and the admin approved the order
Market ==
    After(After(After(Seed,
        Request("mint", "adm", "a1", "u1", 0, 0, 0, 2, 0, "")),
        Request("createOrder", "u1", "a1", "", 0, 0, 0, 1, 200, "")),
        Request("approveOrder", "adm", "", "", 0, 1, 0, 0, 0, ""))

Init ==
    /\ \E db \in {Seed, Market} :
          /\ users = db.users
          /\ assets = db.assets
          /\ tokens = db.tokens
          /\ tokenSeq = db.tokenSeq
          /\ orders = db.orders
          /\ transfers = db.transfers
          /\ priceHistory = db.priceHistory
          /\ navHistory = db.navHistory
          /\ tokenRequests = db.tokenRequests
          /\ notifications = db.notifications
    /\ inflight = [p \in Procs |-> Idle]
    /\ last = Summary(Request("none", "", "", "", 0, 0, 0, 0, 0, ""))
    /\ nreq = 0

Mint == \E req \in MintRequests : Serve(req)
Revoke == \E req \in RevokeRequests : Serve(req)
AdminSetAmount == \E req \in AdminSetAmountRequests : Serve(req)
CreateOrder == \E req \in CreateOrderRequests : Serve(req)
FillOrder == \E req \in FillOrderRequests : Serve(req)
CancelOrder == \E req \in CancelOrderRequests : Serve(req)
ApproveOrder == \E req \in ApproveOrderRequests : Serve(req)
RejectOrder == \E req \in RejectOrderRequests : Serve(req)
TokenRequest == \E req \in TokenRequestRequests : Serve(req)
ApproveTokenRequest == \E req \in ApproveTokenRequestRequests : Serve(req)
RejectTokenRequest == \E req \in RejectTokenRequestRequests : Serve(req)

Next ==
    \/ Mint
    \/ Revoke
    \/ AdminSetAmount
    \/ CreateOrder
    \/ FillOrder
    \/ CancelOrder
    \/ ApproveOrder
    \/ RejectOrder
    \/ TokenRequest
    \/ ApproveTokenRequest
    \/ RejectTokenRequest

Spec == Init /\ [][Next]_vars

----------------------------------------------------------------------------
(* SpecConc: two connections, handlers interleaved at their awaits *)

BeginMint == \E p \in Procs, req \in MintRequests : Begin(p, req)
BeginRevoke == \E p \in Procs, req \in RevokeRequests : Begin(p, req)
BeginAdminSetAmount == \E p \in Procs, req \in AdminSetAmountRequests : Begin(p, req)
BeginCreateOrder == \E p \in Procs, req \in CreateOrderRequests : Begin(p, req)
BeginFillOrder == \E p \in Procs, req \in FillOrderRequests : Begin(p, req)
BeginCancelOrder == \E p \in Procs, req \in CancelOrderRequests : Begin(p, req)
BeginApproveOrder == \E p \in Procs, req \in ApproveOrderRequests : Begin(p, req)
BeginRejectOrder == \E p \in Procs, req \in RejectOrderRequests : Begin(p, req)
BeginTokenRequest == \E p \in Procs, req \in TokenRequestRequests : Begin(p, req)
BeginApproveTokenRequest ==
    \E p \in Procs, req \in ApproveTokenRequestRequests : Begin(p, req)
BeginRejectTokenRequest ==
    \E p \in Procs, req \in RejectTokenRequestRequests : Begin(p, req)
Resume == \E p \in Procs : Await(p)

NextConc ==
    \/ BeginMint
    \/ BeginRevoke
    \/ BeginAdminSetAmount
    \/ BeginCreateOrder
    \/ BeginFillOrder
    \/ BeginCancelOrder
    \/ BeginApproveOrder
    \/ BeginRejectOrder
    \/ BeginTokenRequest
    \/ BeginApproveTokenRequest
    \/ BeginRejectTokenRequest
    \/ Resume

SpecConc == Init /\ [][NextConc]_vars

----------------------------------------------------------------------------
(* SpecFault: requests one at a time, storage calls may throw *)

\* every ledger request a client can send in the current state
LedgerRequests ==
    MintRequests \cup RevokeRequests \cup AdminSetAmountRequests
        \cup CreateOrderRequests \cup FillOrderRequests \cup CancelOrderRequests
        \cup ApproveOrderRequests \cup RejectOrderRequests \cup TokenRequestRequests
        \cup ApproveTokenRequestRequests \cup RejectTokenRequestRequests

\* every outcome of running the handler from l alone when the storage call it
\* is about to await may throw instead of taking effect
RECURSIVE FaultyRuns(_, _)
FaultyRuns(db, l) ==
    IF l.pc = "done" THEN {[db |-> db, l |-> l]}
    ELSE (IF l.pc = "auth" THEN {} ELSE {Throw(db, l)})
         \cup UNION {FaultyRuns(Step(db, l, pick).db, Step(db, l, pick).l) :
                        pick \in PickSet(db, l)}

ServeFaulty(req) ==
    /\ nreq < MaxFaultReq
    /\ Quiescent
    /\ \E r \in FaultyRuns(DB, req) :
          /\ Commit(r.db)
          /\ last' = Summary(r.l)
    /\ nreq' = nreq + 1
    /\ UNCHANGED inflight

FaultyRequest == \E req \in LedgerRequests : ServeFaulty(req)

NextFault == FaultyRequest

SpecFault == Init /\ [][NextFault]_vars

----------------------------------------------------------------------------
(* SpecKyc: requests one at a time, the admin also reviews and holds accounts *)

ServeKyc(req) ==
    /\ nreq < MaxKycReq
    /\ Quiescent
    /\ \E r \in Runs(DB, req) :
          /\ Commit(r.db)
          /\ last' = Summary(r.l)
    /\ nreq' = nreq + 1
    /\ UNCHANGED inflight

ApproveUser == \E req \in ApproveUserRequests : ServeKyc(req)
RejectUser == \E req \in RejectUserRequests : ServeKyc(req)
FreezeUser == \E req \in FreezeUserRequests : ServeKyc(req)
UnfreezeUser == \E req \in UnfreezeUserRequests : ServeKyc(req)
LedgerRequest == \E req \in LedgerRequests : ServeKyc(req)

NextKyc ==
    \/ ApproveUser
    \/ RejectUser
    \/ FreezeUser
    \/ UnfreezeUser
    \/ LedgerRequest

SpecKyc == Init /\ [][NextKyc]_vars

----------------------------------------------------------------------------
(* SpecAdmin: requests one at a time, the admin also revises the NAV and     *)
(* investors also call the admin routes                                      *)

ServeAdmin(req) ==
    /\ nreq < MaxAdminReq
    /\ Quiescent
    /\ \E r \in Runs(DB, req) :
          /\ Commit(r.db)
          /\ last' = Summary(r.l)
    /\ nreq' = nreq + 1
    /\ UNCHANGED inflight

ReviseNav == \E req \in ReviseNavRequests : ServeAdmin(req)
Adjust == \E req \in AdjustRequests : ServeAdmin(req)
NonAdminRequest == \E req \in NonAdminRequests : ServeAdmin(req)
AdminLedgerRequest == \E req \in LedgerRequests : ServeAdmin(req)

NextAdmin ==
    \/ ReviseNav
    \/ Adjust
    \/ NonAdminRequest
    \/ AdminLedgerRequest

SpecAdmin == Init /\ [][NextAdmin]_vars

----------------------------------------------------------------------------
(* SpecIssue: requests one at a time; tokens are issued by direct mints and  *)
(* by approved token requests while the admin reviews the investors' KYC     *)

\* the requests that issue tokens or ask for them
IssueRequests ==
    MintRequests \cup TokenRequestRequests
        \cup ApproveTokenRequestRequests \cup RejectTokenRequestRequests

ServeIssue(req) ==
    /\ nreq < MaxIssueReq
    /\ Quiescent
    /\ \E r \in Runs(DB, req) :
          /\ Commit(r.db)
          /\ last' = Summary(r.l)
    /\ nreq' = nreq + 1
    /\ UNCHANGED inflight

Issue == \E req \in IssueRequests : ServeIssue(req)
ReviewKyc == \E req \in ApproveUserRequests \cup RejectUserRequests : ServeIssue(req)

NextIssue ==
    \/ Issue
    \/ ReviewKyc

SpecIssue == Init /\ [][NextIssue]_vars

----------------------------------------------------------------------------
(* SpecLive: requests one at a time with KYC review and account holds; the   *)
(* admin rejects OPEN orders for as long as there are any                     *)

\* the ids an order can have in a behaviour of SpecLive
LiveOrderIds == 1..(MaxLiveReq + 1)

ServeLive(req) ==
    /\ nreq < MaxLiveReq
    /\ Quiescent
    /\ \E r \in Runs(DB, req) :
          /\ Commit(r.db)
          /\ last' = Summary(r.l)
    /\ nreq' = nreq + 1
    /\ UNCHANGED inflight

\* the admin's rejection of order i
RejectOpenRequest(i) == Request("rejectOrder", "adm", "", "", 0, i, 0, 0, 0, "")

\* the admin rejects order i, which is OPEN
RejectOpen(i) ==
    /\ i \in OrderIds
    /\ orders[i].status = "OPEN"
    /\ Quiescent
    /\ \E r \in Runs(DB, RejectOpenRequest(i)) :
          /\ Commit(r.db)
          /\ last' = Summary(r.l)
    /\ nreq' = nreq + 1
    /\ UNCHANGED inflight

Trade == \E req \in LedgerRequests : ServeLive(req)
HoldAccount ==
    \E req \in RejectUserRequests \cup FreezeUserRequests
                 \cup ApproveUserRequests \cup UnfreezeUserRequests : ServeLive(req)
AdminRejects == \E i \in LiveOrderIds : RejectOpen(i)

NextLive ==
    \/ Trade
    \/ HoldAccount
    \/ AdminRejects

SpecLive ==
    /\ Init
    /\ [][NextLive]_vars
    /\ \A i \in LiveOrderIds : WF_vars(RejectOpen(i))

----------------------------------------------------------------------------
(* Ledger quantities *)

RECURSIVE SumAmounts(_)
SumAmounts(rows) ==
    IF rows = {} THEN 0
    ELSE LET t == CHOOSE x \in rows : TRUE
         IN t.amount + SumAmounts(rows \ {t})

\* tokens held in the rows of one asset, and by one owner of it
TokenSum(toks, a) == SumAmounts({t \in toks : t.assetId = a})
Balance(toks, a, u) == SumAmounts({t \in toks : t.assetId = a /\ t.ownerId = u})

\* cost basis booked on the rows of one owner of an asset
RECURSIVE SumCostBasis(_)
SumCostBasis(rows) ==
    IF rows = {} THEN 0
    ELSE LET t == CHOOSE x \in rows : TRUE
         IN t.costBasis + SumCostBasis(rows \ {t})
CostBasis(toks, a, u) == SumCostBasis({t \in toks : t.assetId = a /\ t.ownerId = u})

\* the rows of everybody but owner u of asset a
OtherRows(toks, a, u) == {t \in toks : ~(t.assetId = a /\ t.ownerId = u)}

\* tokens escrowed in the OPEN orders of an asset
RECURSIVE OpenEscrowUpTo(_, _, _)
OpenEscrowUpTo(ords, a, n) ==
    IF n = 0 THEN 0
    ELSE OpenEscrowUpTo(ords, a, n - 1)
         + (IF ords[n].assetId = a /\ ords[n].status = "OPEN"
            THEN ords[n].tokenAmount ELSE 0)
OpenEscrow(ords, a) == OpenEscrowUpTo(ords, a, Len(ords))

Succeeded(r) == r.res \in {200, 201}
Terminal(order) == order.status \in {"FILLED", "CANCELLED"}

----------------------------------------------------------------------------
(* Supply accounting *)

SupplyOps == {"mint", "revoke", "fillOrder", "createOrder", "cancelOrder", "rejectOrder"}

\* C1 as stated: after every completed mint, revoke, fillOrder, createOrder,
\* cancelOrder and rejectOrder served alone, the amounts of the asset's Token rows
\* plus its remainingSupply equal its totalSupply.
C1SumRule ==
    (last.op \in SupplyOps /\ Succeeded(last)) =>
        \A a \in AssetIds :
            TokenSum(tokens, a) + assets[a].remainingSupply = assets[a].totalSupply

\* C1 amended: after every such request served alone, the amounts of the asset's
\* Token rows plus the tokenAmount of its OPEN orders plus its remainingSupply
\* equal its totalSupply (createOrder moves tokens from the seller's row into the
\* order, so the plain sum rule holds only while no order of the asset is OPEN).
C1EscrowSumRule ==
    (last.op \in SupplyOps /\ Succeeded(last)) =>
        \A a \in AssetIds :
            /\ TokenSum(tokens, a) + OpenEscrow(orders, a) + assets[a].remainingSupply
                   = assets[a].totalSupply
            /\ (OpenEscrow(orders, a) = 0 =>
                   TokenSum(tokens, a) + assets[a].remainingSupply
                       = assets[a].totalSupply)

\* a createOrder has just escrowed tokens: the plain sum is short by the escrow
C1Witness ==
    /\ last.op = "createOrder"
    /\ Succeeded(last)
    /\ last.amount > 0
    /\ OpenEscrow(orders, last.aid) > 0
    /\ TokenSum(tokens, last.aid) + assets[last.aid].remainingSupply
           < assets[last.aid].totalSupply

\* C2 as stated: in every reachable state 0 <= remainingSupply <= totalSupply,
\* for any integer inputs the routes accept.
C2SupplyInRange ==
    \A a \in AssetIds :
        /\ 0 <= assets[a].remainingSupply
        /\ assets[a].remainingSupply <= assets[a].totalSupply

\* C3 as stated: in every reachable state every Token row has amount >= 0, for
\* any integer amounts the routes accept.
C3AmountNonNegative == \A t \in tokens : t.amount >= 0

----------------------------------------------------------------------------
(* Token rows *)

\* C4 as stated: there is at most one Token row per (assetId, ownerId) pair in
\* every reachable state, also when two credits to the same pair are in flight.
C4OneRowPerOwner ==
    \A t1 \in tokens, t2 \in tokens :
        (t1.assetId = t2.assetId /\ t1.ownerId = t2.ownerId) => t1.id = t2.id

----------------------------------------------------------------------------
(* Escrow *)

\* the step served a request to completion and it succeeded
Served(ops) == nreq' = nreq + 1 /\ last'.op \in ops /\ Succeeded(last')

C5CreateStep ==
    Served({"createOrder"}) =>
        /\ Len(orders') = Len(orders) + 1
        /\ orders'[Len(orders')].sellerId = last'.caller
        /\ orders'[Len(orders')].tokenAmount = last'.amount
        /\ orders'[Len(orders')].status = "OPEN"
        /\ Balance(tokens', last'.aid, last'.caller)
               = Balance(tokens, last'.aid, last'.caller) - last'.amount

C5ReturnStep ==
    Served({"cancelOrder", "rejectOrder"}) =>
        LET o == orders[last'.oid] IN
        Balance(tokens', o.assetId, o.sellerId)
            = Balance(tokens, o.assetId, o.sellerId) + o.tokenAmount

C5FillStep ==
    Served({"fillOrder"}) =>
        LET o == orders[last'.oid] IN
        /\ Balance(tokens', o.assetId, last'.caller)
               = Balance(tokens, o.assetId, last'.caller) + o.tokenAmount
        /\ Balance(tokens', o.assetId, o.sellerId) = Balance(tokens, o.assetId, o.sellerId)

\* an order keeps the seller, asset and tokenAmount it was created with
C5KeepStep ==
    \A o \in 1..Len(orders) :
        /\ o \in 1..Len(orders')
        /\ orders'[o].sellerId = orders[o].sellerId
        /\ orders'[o].assetId = orders[o].assetId
        /\ orders'[o].tokenAmount = orders[o].tokenAmount

\* C5: createOrder for N tokens reduces the seller's Token.amount by exactly N
\* and records an OPEN order for N; a cancelOrder or rejectOrder of an order
\* increases the seller's Token.amount by exactly the order's tokenAmount; a
\* fillOrder increases the buyer's Token.amount by exactly the order's
\* tokenAmount and leaves the seller's Token.amount unchanged; the order's
\* tokenAmount is the N it was created with.
C5EscrowCorrect == [][C5CreateStep /\ C5ReturnStep /\ C5FillStep /\ C5KeepStep]_vars

\* an order for N > 0 has just been handed back to its seller, after a fill took
\* place on the same market
C5Witness ==
    /\ last.op \in {"cancelOrder", "rejectOrder"}
    /\ Succeeded(last)
    /\ orders[last.oid].tokenAmount > 0
    /\ orders[last.oid].status = "CANCELLED"
    /\ \E o \in 1..Len(orders) : orders[o].status = "FILLED"

----------------------------------------------------------------------------
(* Audit trail *)

\* the Transfer reasons that match a request that changed a balance by delta: an
\* adminSetAmount names its own reason or takes the one of the delta's sign; the
\* schema has no reason for escrow moves, so any reason is taken to match them
ReasonsFor(r, delta) ==
    CASE r.op \in {"mint", "approveTokenRequest"} -> {"MINT"}
      [] r.op = "revoke" -> {"ADMIN_REVOKE"}
      [] r.op = "adminSetAmount" ->
            IF r.reason # "" THEN {r.reason}
            ELSE IF delta > 0 THEN {"MINT"} ELSE {"ADMIN_REVOKE"}
      [] r.op = "fillOrder" -> {"TRADE"}
      [] OTHER -> {"TRANSFER", "MINT", "FREEZE", "UNFREEZE", "ADMIN_REVOKE", "TRADE"}

C6Step ==
    LET changed == {k \in AssetIds \X Users :
                       Balance(tokens', k[1], k[2]) # Balance(tokens, k[1], k[2])}
    IN (nreq' = nreq + 1 /\ changed # {}) =>
           /\ Len(transfers') = Len(transfers) + 1
           /\ \A k \in changed :
                 LET row == transfers'[Len(transfers')]
                     delta == Balance(tokens', k[1], k[2]) - Balance(tokens, k[1], k[2])
                 IN /\ row.assetId = k[1]
                    /\ row.tokenAmount = Abs(delta)
                    /\ row.reason \in ReasonsFor(last', delta)

\* C6 as stated: every change of a Token.amount by a request is accompanied by
\* exactly one new Transfer row whose tokenAmount equals the size of the change
\* and whose reason matches the operation.
C6AuditComplete == [][C6Step]_vars

----------------------------------------------------------------------------
(* Order lifecycle *)

OrderOps == {"fillOrder", "cancelOrder", "approveOrder", "rejectOrder"}

C7Step ==
    \A o \in 1..Len(orders) :
        Terminal(orders[o]) =>
            /\ o \in 1..Len(orders')
            /\ orders'[o].status = orders[o].status
            /\ orders'[o].approvalStatus = orders[o].approvalStatus
            /\ orders'[o].buyerId = orders[o].buyerId
            /\ (nreq' = nreq + 1 /\ last'.op \in OrderOps /\ last'.oid = o) =>
                   (last'.res = 400 /\ tokens' = tokens /\ transfers' = transfers)

----------------------------------------------------------------------------
(* Interleaved requests *)

\* connection p holds the response of a request of one of the kinds, on order o
Responded(p, ops, o) ==
    /\ inflight[p].pc = "done"
    /\ inflight[p].op \in ops
    /\ inflight[p].oid = o

RECURSIVE VolumeUpTo(_, _, _)
VolumeUpTo(hist, o, n) ==
    IF n = 0 THEN 0
    ELSE VolumeUpTo(hist, o, n - 1) + (IF hist[n].orderId = o THEN hist[n].volume ELSE 0)
\* tokens credited to buyers for order o by fills that went on to record the trade
FilledVolume(o) == VolumeUpTo(priceHistory, o, Len(priceHistory))

\* C8 as stated: for any interleaving of two fillOrder requests on the same
\* order at most one succeeds, and the total credited to buyers for the order is
\* exactly order.tokenAmount.
C8FilledOnce ==
    \A o \in 1..Len(orders) :
        /\ Cardinality({p \in Procs :
               Responded(p, {"fillOrder"}, o) /\ Succeeded(inflight[p])}) <= 1
        /\ FilledVolume(o) \in {0, orders[o].tokenAmount}

\* C9 as stated: for any interleaving of a fillOrder with a cancelOrder or
\* rejectOrder on the same order, the escrowed tokens are either returned to
\* the seller or credited to the buyer, never both.
C9ReleasedOnce ==
    \A o \in 1..Len(orders) :
        ~ /\ \E p \in Procs :
                Responded(p, {"fillOrder"}, o) /\ Succeeded(inflight[p])
          /\ \E q \in Procs :
                Responded(q, {"cancelOrder", "rejectOrder"}, o) /\ Succeeded(inflight[q])

\* C10 as stated: for any interleaving of two createOrder requests by the same
\* seller on the same asset, the seller's balance is debited once per created
\* order, so the tokens of the seller's row and of the seller's OPEN orders
\* together never exceed what the seller held before: the asset's Token rows,
\* OPEN orders and remainingSupply still add up to totalSupply.
C10NoDoubleCommit ==
    \A p \in Procs, q \in Procs :
        ( /\ p # q
          /\ inflight[p].pc = "done" /\ inflight[p].op = "createOrder"
          /\ inflight[q].pc = "done" /\ inflight[q].op = "createOrder"
          /\ Succeeded(inflight[p]) /\ Succeeded(inflight[q])
          /\ inflight[p].caller = inflight[q].caller
          /\ inflight[p].aid = inflight[q].aid
          /\ inflight[p].amount > 0 /\ inflight[q].amount > 0
          /\ nreq = 2 ) =>
        LET a == inflight[p].aid IN
        TokenSum(tokens, a) + OpenEscrow(orders, a) + assets[a].remainingSupply
            = assets[a].totalSupply

\* both connections have answered and no other request was accepted
BothResponded(p, q) ==
    /\ p # q
    /\ nreq = 2
    /\ inflight[p].pc = "done" /\ Succeeded(inflight[p])
    /\ inflight[q].pc = "done" /\ Succeeded(inflight[q])

\* tokens in rows, in OPEN orders and unissued add up to the asset's supply
Conserved(a) ==
    TokenSum(tokens, a) + OpenEscrow(orders, a) + assets[a].remainingSupply
        = assets[a].totalSupply

\* C11 as stated, for two mints: for any interleaving of two supply-consuming
\* operations on the same asset the final remainingSupply is the initial value
\* minus the amounts actually credited (what the rows gained was taken from
\* remainingSupply), and it is never below 0.
C11SupplyNotStale ==
    \A p \in Procs, q \in Procs :
        ( /\ BothResponded(p, q)
          /\ inflight[p].op = "mint" /\ inflight[q].op = "mint"
          /\ inflight[p].aid = inflight[q].aid ) =>
        \A a \in AssetIds : Conserved(a) /\ assets[a].remainingSupply >= 0

\* C12 as stated: for any interleaving of a revoke on a seller's Token row with
\* a createOrder by that seller on the same asset, token amounts plus OPEN
\* order amounts plus remainingSupply still equal totalSupply.
C12RevokedNotSold ==
    \A p \in Procs, q \in Procs :
        ( /\ BothResponded(p, q)
          /\ inflight[p].op = "revoke" /\ inflight[p].amount > 0
          /\ inflight[q].op = "createOrder" /\ inflight[q].amount > 0 ) =>
        \A a \in AssetIds : Conserved(a)

----------------------------------------------------------------------------
(* Failing writes *)

\* C13 as stated: if a store write inside an operation fails (the request is
\* answered 500), none of the operation's earlier writes remain visible: the
\* ledger tables equal what they were before the operation.
C13AllOrNothing ==
    [][(nreq' = nreq + 1 /\ last'.res = 500) =>
          UNCHANGED <<assets, tokens, orders, transfers, priceHistory>>]_vars

----------------------------------------------------------------------------
(* Filling an order *)

\* the step served a fillOrder on an existing order, whatever the answer
ServedFill == nreq' = nreq + 1 /\ last'.op = "fillOrder" /\ last'.oid \in 1..Len(orders)

Refused(r) == r.res >= 400

\* C14: a fillOrder sent by the order's own seller is always refused, and the
\* Token rows, the orders (status, buyerId), the Transfer log and PriceHistory
\* are unchanged.
C14NoSelfTrade ==
    [][(ServedFill /\ orders[last'.oid].sellerId = last'.caller) =>
          /\ Refused(last')
          /\ UNCHANGED <<tokens, orders, transfers, priceHistory>>]_vars

\* the seller tried to buy their own OPEN, APPROVED order and was refused
C14Witness ==
    /\ last.op = "fillOrder"
    /\ last.oid \in 1..Len(orders)
    /\ orders[last.oid].sellerId = last.caller
    /\ orders[last.oid].status = "OPEN"
    /\ orders[last.oid].approvalStatus = "APPROVED"
    /\ users[last.caller].kycStatus = "APPROVED" /\ ~users[last.caller].isFrozen
    /\ last.res = 400

\* a fillOrder on an order that is not APPROVED is refused and changes nothing
C15FillStep ==
    (ServedFill /\ orders[last'.oid].approvalStatus # "APPROVED") =>
        /\ Refused(last')
        /\ UNCHANGED <<assets, tokens, orders, transfers, priceHistory>>

\* orders start PENDING, become APPROVED only by a successful approveOrder on
\* them, and become FILLED only when they are APPROVED
C15OrderStep ==
    \A o \in 1..Len(orders') :
        IF o > Len(orders)
        THEN orders'[o].approvalStatus = "PENDING" /\ orders'[o].status = "OPEN"
        ELSE /\ (orders'[o].approvalStatus = "APPROVED"
                     /\ orders[o].approvalStatus # "APPROVED") =>
                    (Served({"approveOrder"}) /\ last'.oid = o)
             /\ (orders'[o].status = "FILLED" /\ orders[o].status # "FILLED") =>
                    orders[o].approvalStatus = "APPROVED"

\* C15: fillOrder on an order whose approvalStatus is not APPROVED fails with
\* no state change, so each order's FILLED transition is preceded by an
\* approveOrder on that order.
C15ApprovedBeforeFill == [][C15FillStep /\ C15OrderStep]_vars

\* an eligible buyer tried to fill another investor's OPEN order that was still
\* PENDING and was refused
C15Witness ==
    /\ last.op = "fillOrder"
    /\ last.res = 400
    /\ last.oid \in 1..Len(orders)
    /\ orders[last.oid].status = "OPEN"
    /\ orders[last.oid].approvalStatus = "PENDING"
    /\ orders[last.oid].sellerId # last.caller
    /\ orders[last.oid].tokenAmount > 0

----------------------------------------------------------------------------
(* Compliance gate *)

\* the user may trade: KYC approved and no hold on the account
Eligible(u) == u.kycStatus = "APPROVED" /\ ~u.isFrozen

\* C16: if the seller's kycStatus is not APPROVED or the seller is frozen when
\* fillOrder runs, fillOrder is refused, the order stays as it was (OPEN) and
\* no balance, Transfer or PriceHistory changes.
C16SellerRechecked ==
    [][(ServedFill /\ ~Eligible(users[orders[last'.oid].sellerId])) =>
          /\ Refused(last')
          /\ UNCHANGED <<assets, tokens, orders, transfers, priceHistory>>]_vars

\* an eligible buyer was refused an OPEN, APPROVED order of positive size
\* because its seller, eligible when the order was created, no longer is
C16Witness ==
    /\ last.op = "fillOrder"
    /\ last.res = 400
    /\ last.oid \in 1..Len(orders)
    /\ orders[last.oid].status = "OPEN"
    /\ orders[last.oid].approvalStatus = "APPROVED"
    /\ orders[last.oid].tokenAmount > 0
    /\ orders[last.oid].sellerId # last.caller
    /\ Eligible(users[last.caller])
    /\ ~Eligible(users[orders[last.oid].sellerId])

----------------------------------------------------------------------------
(* Effects of a fill *)

FilledCount(ords) == Cardinality({o \in 1..Len(ords) : ords[o].status = "FILLED"})

C17FillStep ==
    Served({"fillOrder"}) =>
        LET o == last'.oid
            order == orders[o]
        IN /\ Len(orders') = Len(orders)
           /\ orders'[o] = [order EXCEPT !.status = "FILLED", !.buyerId = last'.caller]
           /\ \A k \in 1..Len(orders) : k # o => orders'[k] = orders[k]
           /\ transfers' = Append(transfers,
                  [assetId |-> order.assetId, fromUserId |-> order.sellerId,
                   toUserId |-> last'.caller, tokenAmount |-> order.tokenAmount,
                   reason |-> "TRADE"])
           /\ priceHistory' = Append(priceHistory,
                  [assetId |-> order.assetId, price |-> order.pricePerToken,
                   volume |-> order.tokenAmount, orderId |-> o])

C17CountStep ==
    /\ Len(priceHistory) = FilledCount(orders)
    /\ Len(priceHistory') = FilledCount(orders')

----------------------------------------------------------------------------
(* Input validation *)

\* C18 as stated: a createOrder with tokenAmount <= 0 or pricePerToken <= 0 is
\* rejected (and so creates no order and leaves the seller's row alone).
C18OrderValidated ==
    (last.op = "createOrder" /\ (last.amount <= 0 \/ last.price <= 0)) => Refused(last)

\* the whole store is as it was
StoreUnchanged ==
    UNCHANGED <<users, assets, tokens, tokenSeq, orders, transfers, priceHistory,
                navHistory, tokenRequests, notifications>>

C19GateStep ==
    ( /\ nreq' = nreq + 1
      /\ last'.op \in {"createOrder", "fillOrder", "tokenRequest"}
      /\ ~Eligible(users[last'.caller]) ) =>
        (last'.res = 403 /\ StoreUnchanged)

C19BalanceStep ==
    ( /\ nreq' = nreq + 1
      /\ last'.op = "createOrder"
      /\ Balance(tokens, last'.aid, last'.caller) < last'.amount ) =>
        (Refused(last') /\ StoreUnchanged)

\* C19: createOrder, fillOrder and token-request creation fail with no state
\* change whenever the caller's kycStatus, as stored when the request is served,
\* is not APPROVED or the caller is frozen; createOrder also fails with no state
\* change when the seller holds fewer tokens than tokenAmount.
C19ComplianceGate == [][C19GateStep /\ C19BalanceStep]_vars

\* an investor with approved KYC and enough tokens for the order was put on
\* hold and then refused a createOrder
C19Witness ==
    /\ last.op = "createOrder"
    /\ last.res = 403
    /\ users[last.caller].kycStatus = "APPROVED"
    /\ users[last.caller].isFrozen
    /\ last.amount > 0
    /\ Balance(tokens, last.aid, last.caller) >= last.amount

----------------------------------------------------------------------------
(* Cancelling an order *)

\* the step served a cancelOrder sent by the seller of an OPEN order
ServedOwnCancel ==
    /\ nreq' = nreq + 1
    /\ last'.op = "cancelOrder"
    /\ last'.oid \in 1..Len(orders)
    /\ orders[last'.oid].sellerId = last'.caller
    /\ orders[last'.oid].status = "OPEN"

\* the order was cancelled and its tokens are back in the seller's balance
CancelledStep ==
    LET order == orders[last'.oid] IN
    /\ last'.res = 200
    /\ orders'[last'.oid].status = "CANCELLED"
    /\ Balance(tokens', order.assetId, order.sellerId)
           = Balance(tokens, order.assetId, order.sellerId) + order.tokenAmount

\* C20 as stated: whenever the caller is the order's seller and the order is
\* OPEN, cancelOrder succeeds, sets status to CANCELLED and returns tokenAmount
\* to the seller, independently of the seller's KYC status and hold.
C20CancelUngated == [][ServedOwnCancel => CancelledStep]_vars

\* C20 amended: cancelOrder has three preconditions. Whenever the caller is the
\* order's seller, the order is OPEN and the caller is KYC-approved and not
\* frozen when the request is served, cancelOrder succeeds, sets status to
\* CANCELLED and returns tokenAmount to the seller; when the seller is not
\* KYC-approved or is frozen it is refused with 403 and nothing changes.
C20CancelGated ==
    [][ServedOwnCancel =>
          IF Eligible(users[last'.caller])
          THEN CancelledStep
          ELSE last'.res = 403 /\ StoreUnchanged]_vars

\* a seller on hold was refused the cancellation of their own OPEN order
C20Witness ==
    /\ last.op = "cancelOrder"
    /\ last.res = 403
    /\ last.oid \in 1..Len(orders)
    /\ orders[last.oid].sellerId = last.caller
    /\ orders[last.oid].status = "OPEN"
    /\ orders[last.oid].tokenAmount > 0
    /\ ~Eligible(users[last.caller])

\* C21: a cancelOrder sent by a caller who is not the order's seller is refused,
\* and the order (its status) and every Token row (its amount) are unchanged.
C21NotYourOrder ==
    [][( /\ nreq' = nreq + 1
         /\ last'.op = "cancelOrder"
         /\ last'.oid \in 1..Len(orders)
         /\ orders[last'.oid].sellerId # last'.caller ) =>
          /\ Refused(last')
          /\ UNCHANGED <<orders, tokens>>]_vars

\* an eligible investor was refused the cancellation of another investor's
\* OPEN order
C21Witness ==
    /\ last.op = "cancelOrder"
    /\ last.res = 403
    /\ last.oid \in 1..Len(orders)
    /\ orders[last.oid].sellerId # last.caller
    /\ orders[last.oid].status = "OPEN"
    /\ orders[last.oid].tokenAmount > 0
    /\ Eligible(users[last.caller])

----------------------------------------------------------------------------
(* Rejecting an order *)

\* a successful rejectOrder leaves the order REJECTED and CANCELLED, its
\* tokenAmount back in the seller's balance
C22RejectStep ==
    Served({"rejectOrder"}) =>
        LET order == orders[last'.oid] IN
        /\ orders'[last'.oid].approvalStatus = "REJECTED"
        /\ orders'[last'.oid].status = "CANCELLED"
        /\ Balance(tokens', order.assetId, order.sellerId)
               = Balance(tokens, order.assetId, order.sellerId) + order.tokenAmount

\* every REJECTED order is CANCELLED
RejectedAreCancelled(ords) ==
    \A o \in 1..Len(ords) : ords[o].approvalStatus = "REJECTED" => ords[o].status = "CANCELLED"

----------------------------------------------------------------------------
(* Minting *)

\* C23: mint is refused and changes nothing (no Token row created or changed,
\* remainingSupply unchanged, no Transfer appended) whenever the target user's
\* kycStatus is not APPROVED or the asset's remainingSupply is below the amount.
C23MintRefused ==
    [][( /\ nreq' = nreq + 1
         /\ last'.op = "mint"
         /\ \/ users[last'.uid].kycStatus # "APPROVED"
            \/ assets[last'.aid].remainingSupply < last'.amount ) =>
          /\ Refused(last')
          /\ UNCHANGED <<tokens, tokenSeq, assets, transfers>>]_vars

\* the admin was refused a mint of a positive amount the supply covers, to an
\* investor whose KYC is no longer approved
C23Witness ==
    /\ last.op = "mint"
    /\ last.res = 400
    /\ last.amount > 0
    /\ assets[last.aid].remainingSupply >= last.amount
    /\ users[last.uid].kycStatus # "APPROVED"

C24MintStep ==
    Served({"mint"}) =>
        LET a == last'.aid
            u == last'.uid
            n == last'.amount
            before == {t \in tokens : t.assetId = a /\ t.ownerId = u}
            after == {t \in tokens' : t.assetId = a /\ t.ownerId = u}
        IN /\ Cardinality(after) = 1
           /\ before # {} => {t.id : t \in after} = {t.id : t \in before}
           /\ Balance(tokens', a, u) = Balance(tokens, a, u) + n
           /\ CostBasis(tokens', a, u) = CostBasis(tokens, a, u) + n * assets[a].navPrice
           /\ OtherRows(tokens', a, u) = OtherRows(tokens, a, u)
           /\ assets' = [assets EXCEPT ![a].remainingSupply = assets[a].remainingSupply - n]
           /\ transfers' = Append(transfers,
                  [assetId |-> a, fromUserId |-> NoUser, toUserId |-> u,
                   tokenAmount |-> n, reason |-> "MINT"])

----------------------------------------------------------------------------
(* Revoking and correcting *)

\* the step served an admin's request of the kind on a Token row that exists
ServedOnToken(op) ==
    /\ nreq' = nreq + 1
    /\ last'.op = op
    /\ users[last'.caller].role = "ADMIN"
    /\ Found(getToken(DB, last'.tid))

C25RevokeStep ==
    ServedOnToken("revoke") =>
        LET token == getToken(DB, last'.tid)
            n == last'.amount
            a == token.assetId
        IN IF 0 < n /\ n <= token.amount
           THEN /\ Succeeded(last')
                /\ tokens' = IF n = token.amount
                              THEN tokens \ {token}
                              ELSE (tokens \ {token})
                                       \cup {[token EXCEPT !.amount = token.amount - n]}
                /\ assets' = [assets EXCEPT
                                 ![a].remainingSupply = assets[a].remainingSupply + n]
                /\ transfers' = Append(transfers,
                       [assetId |-> a, fromUserId |-> token.ownerId, toUserId |-> NoUser,
                        tokenAmount |-> n, reason |-> "ADMIN_REVOKE"])
           ELSE Refused(last') /\ StoreUnchanged

\* C25: revoke(tokenId, n) with 0 < n <= token.amount decreases the token's
\* amount by n (deleting the row when the result is 0), increases the asset's
\* remainingSupply by n and appends one
\* Transfer{from: owner, to: null, tokenAmount: n, reason: ADMIN_REVOKE}; revoke
\* with n > token.amount or n <= 0 is refused with no state change.
C25RevokeEffects == [][C25RevokeStep]_vars

\* the admin has just revoked all the tokens of a row, which is gone
C25Witness ==
    /\ last.op = "revoke"
    /\ Succeeded(last)
    /\ last.amount > 0
    /\ last.tid \in 1..tokenSeq
    /\ ~Found(getToken(DB, last.tid))
    /\ Len(transfers) > 0
    /\ transfers[Len(transfers)].reason = "ADMIN_REVOKE"
    /\ transfers[Len(transfers)].tokenAmount = last.amount

C26SetAmountStep ==
    (ServedOnToken("adminSetAmount") /\ last'.amount >= 0) =>
        LET token == getToken(DB, last'.tid)
            a == token.assetId
            delta == last'.amount - token.amount
            set == (tokens \ {token}) \cup {[token EXCEPT !.amount = last'.amount]}
        IN IF delta > assets[a].remainingSupply
           THEN Refused(last') /\ StoreUnchanged
           ELSE /\ Succeeded(last')
                /\ \/ tokens' = set
                   \/ last'.amount = 0 /\ tokens' = tokens \ {token}
                /\ assets' = [assets EXCEPT
                                 ![a].remainingSupply = assets[a].remainingSupply - delta]
                /\ IF delta = 0 THEN transfers' = transfers
                   ELSE \E reason \in ReasonsFor(last', delta) :
                           transfers' = Append(transfers,
                               [assetId |-> a,
                                fromUserId |-> IF delta < 0 THEN token.ownerId ELSE NoUser,
                                toUserId |-> IF delta > 0 THEN token.ownerId ELSE NoUser,
                                tokenAmount |-> Abs(delta), reason |-> reason])

\* C26 as stated, with a row deleted at newAmount 0 and a reason named by the
\* request both taken as meeting it: adminSetAmount(tokenId, newAmount >= 0)
\* with delta = newAmount - oldAmount is refused with no state change when
\* delta > remainingSupply; otherwise it sets the token's amount to newAmount,
\* changes remainingSupply by -delta, and for delta # 0 appends one Transfer of
\* |delta|, to the owner (MINT) when delta > 0 and from the owner (ADMIN_REVOKE)
\* when delta < 0.
C26SetAmountEffects == [][C26SetAmountStep]_vars

----------------------------------------------------------------------------
(* NAV revisions *)

\* the NavHistory rows of an asset, by position
NavRows(hist, a) == {i \in 1..Len(hist) : hist[i].assetId = a}

\* the asset's most recently appended NavHistory row
LatestNav(hist, a) == hist[CHOOSE i \in NavRows(hist, a) : \A j \in NavRows(hist, a) : j <= i]

\* an asset with NavHistory rows has the NAV of the latest of them
NavRecorded(as, hist) ==
    \A a \in DOMAIN as : NavRows(hist, a) # {} => as[a].navPrice = LatestNav(hist, a).navPrice

\* the step served a reviseNav, whatever the answer
ServedNav == nreq' = nreq + 1 /\ last'.op = "reviseNav"

C27NavStep ==
    /\ \A a \in DOMAIN assets :
          assets'[a].navPrice # assets[a].navPrice =>
              /\ Served({"reviseNav"}) /\ last'.aid = a
              /\ Len(navHistory') = Len(navHistory) + 1
              /\ navHistory'[Len(navHistory')].assetId = a
    /\ Served({"reviseNav"}) =>
          /\ navHistory'[Len(navHistory')] =
                 [assetId |-> last'.aid, navPrice |-> last'.price, reason |-> "revaluation"]
          /\ assets'[last'.aid].navPrice = last'.price
    /\ (ServedNav /\ last'.aid \notin DOMAIN assets) =>
          (Refused(last') /\ StoreUnchanged)
    /\ NavRecorded(assets, navHistory) /\ NavRecorded(assets', navHistory')

\* C27: asset.navPrice changes only through a reviseNav that appends a
\* NavHistory row of the asset; before and after every completed request the
\* navPrice of an asset that has NavHistory rows is the navPrice of its most
\* recently appended row; a reviseNav on a missing asset is refused and appends
\* no NavHistory row.
C27NavNeverSkipped == [][C27NavStep]_vars

\* the admin has just revised the NAV of an asset away from its seeded value
C27Witness ==
    /\ last.op = "reviseNav"
    /\ Succeeded(last)
    /\ assets[last.aid].navPrice # NavPrice
    /\ assets[last.aid].navPrice = last.price
    /\ LatestNav(navHistory, last.aid).navPrice = last.price

\* C28 as stated: a reviseNav with a navPrice that is zero or negative is
\* refused, and neither a NavHistory row is appended nor the asset's navPrice
\* changed.
C28NavValidated ==
    [][(ServedNav /\ last'.price <= 0) =>
          /\ Refused(last')
          /\ UNCHANGED <<navHistory, assets>>]_vars

----------------------------------------------------------------------------
(* Append-only logs *)

\* log t is log s with rows added at its end
Extends(t, s) == Len(s) <= Len(t) /\ \A i \in 1..Len(s) : t[i] = s[i]

\* C29: the Transfer log, NavHistory and PriceHistory are append-only: no step
\* removes or modifies an existing row, so each log in any state is an
\* extension of the same log in every earlier state.
C29AppendOnly ==
    [][/\ Extends(transfers', transfers)
       /\ Extends(navHistory', navHistory)
       /\ Extends(priceHistory', priceHistory)]_vars

\* all three logs have been written to, the Transfer log more than once
C29Witness ==
    /\ Len(transfers) >= 2
    /\ Len(navHistory) >= 1
    /\ Len(priceHistory) >= 1

----------------------------------------------------------------------------
(* Admin-only operations *)

AdminOps ==
    {"mint", "revoke", "adminSetAmount", "reviseNav", "approveOrder", "rejectOrder",
     "approveTokenRequest", "rejectTokenRequest",
     "approveUser", "rejectUser", "freezeUser", "unfreezeUser"}

\* C30: mint, revoke, adminSetAmount, reviseNav, approveOrder, rejectOrder,
\* token-request approve/reject, KYC approve/reject and freeze/unfreeze sent by a
\* caller whose role is not ADMIN are always refused (403) and leave the whole
\* store unchanged.
C30AdminOnly ==
    [][( /\ nreq' = nreq + 1
         /\ last'.op \in AdminOps
         /\ users[last'.caller].role # "ADMIN" ) =>
          (last'.res = 403 /\ StoreUnchanged)]_vars

\* an eligible investor was refused a mint to themselves that the supply covers
C30Witness ==
    /\ last.op = "mint"
    /\ last.res = 403
    /\ users[last.caller].role = "INVESTOR"
    /\ Eligible(users[last.caller])
    /\ last.uid = last.caller
    /\ last.amount > 0
    /\ assets[last.aid].remainingSupply >= last.amount

----------------------------------------------------------------------------
(* Notifications *)

\* the step served a request of one of the notifying routes and the last of
\* the route's ledger writes took effect, so that only the route's
\* createNotification calls were left to run
LedgerWritesDone ==
    /\ nreq' = nreq + 1
    /\ \/ last'.op = "createOrder" /\ last'.amount > 0 /\ Len(orders') = Len(orders) + 1
       \/ last'.op = "fillOrder" /\ Len(priceHistory') = Len(priceHistory) + 1
       \/ /\ last'.op = "rejectOrder"
          /\ last'.oid \in 1..Len(orders)
          /\ orders[last'.oid].status = "OPEN"
          /\ orders'[last'.oid].status = "CANCELLED"
          /\ tokens' # tokens
       \/ /\ last'.op = "approveOrder"
          /\ last'.oid \in 1..Len(orders)
          /\ orders[last'.oid].approvalStatus # "APPROVED"
          /\ orders'[last'.oid].approvalStatus = "APPROVED"
       \/ last'.op = "approveTokenRequest" /\ Len(transfers') = Len(transfers) + 1

\* C31 as stated: when createNotification fails after the ledger writes of
\* createOrder, fillOrder, rejectOrder, approveOrder or a token-request
\* approval, those writes persist and the operation is still reported as
\* successful to the caller.
C31NotificationInvisible == [][LedgerWritesDone => Succeeded(last')]_vars

----------------------------------------------------------------------------
(* Empty rows *)

\* C32 as stated: no Token row with amount 0 persists: after every completed
\* operation that brings a Token's amount to exactly zero (revoke,
\* adminSetAmount, createOrder escrowing the whole balance) the row is absent.
C32NoZeroRow == \A t \in tokens : t.amount # 0

----------------------------------------------------------------------------
(* Issuance *)

\* the step appended exactly one Transfer
Logged == Len(transfers') = Len(transfers) + 1

\* C33 as stated: whenever a direct mint or a token-request approval appends a
\* Transfer with reason MINT that credits user u, u's kycStatus is APPROVED at
\* that moment, also when u's KYC was rejected after u created the request.
C33MintOnlyToApproved ==
    [][( /\ nreq' = nreq + 1
         /\ last'.op \in {"mint", "approveTokenRequest"}
         /\ Logged
         /\ transfers'[Len(transfers')].reason = "MINT"
         /\ transfers'[Len(transfers')].tokenAmount > 0 ) =>
          users[transfers'[Len(transfers')].toUserId].kycStatus = "APPROVED"]_vars

----------------------------------------------------------------------------
(* Shape of the audit rows *)

WellFormed(row) ==
    /\ row.tokenAmount > 0
    /\ row.reason = "MINT" => row.fromUserId = NoUser /\ row.toUserId # NoUser
    /\ row.reason = "ADMIN_REVOKE" => row.fromUserId # NoUser /\ row.toUserId = NoUser
    /\ row.reason = "TRADE" =>
          /\ row.fromUserId # NoUser
          /\ row.toUserId # NoUser
          /\ row.fromUserId # row.toUserId

\* C34 as stated: every Transfer row has tokenAmount > 0; a MINT row has no
\* sender and a receiver, an ADMIN_REVOKE row a sender and no receiver, a TRADE
\* row a sender and a different receiver; also when adminSetAmount wrote the row
\* with a reason supplied by the caller.
C34TransfersWellFormed == \A i \in 1..Len(transfers) : WellFormed(transfers[i])

----------------------------------------------------------------------------
(* Cost basis of returned tokens *)

ReturnStep ==
    /\ nreq' = nreq + 1
    /\ last'.op \in {"cancelOrder", "rejectOrder"}
    /\ Succeeded(last')
    /\ last'.oid \in 1..Len(orders)

C35ReturnStep ==
    ReturnStep =>
        LET o == orders[last'.oid] IN
            /\ Balance(tokens', o.assetId, o.sellerId)
                   = Balance(tokens, o.assetId, o.sellerId) + o.tokenAmount
            /\ CostBasis(tokens', o.assetId, o.sellerId)
                   = CostBasis(tokens, o.assetId, o.sellerId)
                        + o.tokenAmount * assets[o.assetId].navPrice

----------------------------------------------------------------------------
(* Conservation *)

\* C36: after any sequence of completed operations, for every asset the sum of
\* Token.amount plus the tokenAmount of its OPEN orders plus remainingSupply
\* equals totalSupply.
C36Conservation == \A a \in AssetIds : Conserved(a)

\* only positive amounts are on record
PositiveAmounts ==
    /\ \A t \in tokens : t.amount > 0
    /\ \A i \in 1..Len(orders) : orders[i].tokenAmount > 0
    /\ \A i \in 1..Len(transfers) : transfers[i].tokenAmount > 0
    /\ \A i \in 1..Len(tokenRequests) : tokenRequests[i].amount > 0

\* a token request has been approved, or a balance set by the admin, while
\* tokens of the asset are held in rows, in an OPEN order and unissued
C36Witness ==
    /\ last.op \in {"approveTokenRequest", "adminSetAmount"}
    /\ Succeeded(last)
    /\ PositiveAmounts
    /\ \E a \in AssetIds :
          /\ TokenSum(tokens, a) > 0
          /\ OpenEscrow(orders, a) > 0
          /\ assets[a].remainingSupply > 0
          /\ \E i \in 1..Len(transfers) : i > 1 /\ transfers[i].assetId = a

----------------------------------------------------------------------------
(* Order records *)

ConsistentOrder(o) ==
    /\ o.status = "FILLED" =>
          /\ o.approvalStatus = "APPROVED"
          /\ o.buyerId # NoUser
          /\ o.buyerId # o.sellerId
    /\ o.status \in {"OPEN", "CANCELLED"} => o.buyerId = NoUser

----------------------------------------------------------------------------
(* Termination of orders *)

\* the admin's rejection of order i, served now, answers 200, cancels the order
\* and returns its tokens to the seller
RejectReturns(i) ==
    LET o == orders[i] IN
    \A r \in Runs(DB, RejectOpenRequest(i)) :
        /\ r.l.res = 200
        /\ r.db.orders[i].status = "CANCELLED"
        /\ Balance(r.db.tokens, o.assetId, o.sellerId)
               = Balance(tokens, o.assetId, o.sellerId) + o.tokenAmount

Open(i) == i \in OrderIds /\ orders[i].status = "OPEN"

\* C38: in every reachable state the admin's rejectOrder of any OPEN order is
\* enabled and returns the escrowed tokens to the seller, whatever the order's
\* approvalStatus and the seller's KYC and frozen status; and, the admin's
\* rejections being weakly fair, every OPEN order eventually stops being OPEN.
C38OpenOrdersTerminate ==
    /\ [](\A i \in LiveOrderIds : Open(i) => ENABLED RejectOpen(i) /\ RejectReturns(i))
    /\ \A i \in LiveOrderIds : Open(i) ~> ~Open(i)

\* the admin has rejected the never-approved order of a seller whose account is
\* frozen and whose KYC is rejected, and the tokens are back in the seller's row
C38Witness ==
    /\ last.op = "rejectOrder"
    /\ Succeeded(last)
    /\ nreq > MaxLiveReq
    /\ orders[last.oid].status = "CANCELLED"
    /\ \/ users[orders[last.oid].sellerId].isFrozen
       \/ users[orders[last.oid].sellerId].kycStatus # "APPROVED"
    /\ Balance(tokens, orders[last.oid].assetId, orders[last.oid].sellerId) > 0

----------------------------------------------------------------------------
(* Token requests *)

\* the request a served approveTokenRequest or rejectTokenRequest names
Reviewed == tokenRequests[last'.rid]

C39StatusStep ==
    /\ Len(tokenRequests') >= Len(tokenRequests)
    /\ \A i \in 1..Len(tokenRequests) :
          /\ tokenRequests'[i].userId = tokenRequests[i].userId
          /\ tokenRequests'[i].assetId = tokenRequests[i].assetId
          /\ tokenRequests'[i].amount = tokenRequests[i].amount
          /\ tokenRequests'[i].status # tokenRequests[i].status =>
                /\ tokenRequests[i].status = "PENDING"
                /\ last'.rid = i
                /\ \/ last'.op = "approveTokenRequest" /\ tokenRequests'[i].status = "APPROVED"
                   \/ last'.op = "rejectTokenRequest" /\ tokenRequests'[i].status = "REJECTED"
    /\ \A i \in (Len(tokenRequests) + 1)..Len(tokenRequests') :
          tokenRequests'[i].status = "PENDING"

C39RefusalStep ==
    ( /\ last'.op \in {"approveTokenRequest", "rejectTokenRequest"}
      /\ last'.rid \in RequestIds
      /\ \/ Reviewed.status # "PENDING"
         \/ /\ last'.op = "approveTokenRequest"
            /\ assets[Reviewed.assetId].remainingSupply < Reviewed.amount ) =>
        (Refused(last') /\ StoreUnchanged)

C39CreditStep ==
    (last'.op = "approveTokenRequest" /\ Succeeded(last')) =>
        /\ last'.rid \in RequestIds
        /\ Reviewed.status = "PENDING"
        /\ tokenRequests'[last'.rid].status = "APPROVED"
        /\ Balance(tokens', Reviewed.assetId, Reviewed.userId)
               = Balance(tokens, Reviewed.assetId, Reviewed.userId) + Reviewed.amount
        /\ OtherRows(tokens', Reviewed.assetId, Reviewed.userId)
               = OtherRows(tokens, Reviewed.assetId, Reviewed.userId)
        /\ assets' = [assets EXCEPT ![Reviewed.assetId].remainingSupply =
                                        assets[Reviewed.assetId].remainingSupply
                                            - Reviewed.amount]
        /\ transfers' = Append(transfers,
               [assetId |-> Reviewed.assetId, fromUserId |-> NoUser,
                toUserId |-> Reviewed.userId, tokenAmount |-> Reviewed.amount,
                reason |-> "MINT"])

C39NoCreditStep ==
    (last'.op \in {"tokenRequest", "rejectTokenRequest"}) =>
        UNCHANGED <<tokens, assets, transfers>>

\* C39: a token request changes status only from PENDING to APPROVED or
\* REJECTED and never again; an approval is refused with no state change when
\* asset.remainingSupply < request.amount (or the request is not PENDING, so a
\* request is credited at most once); a successful approval credits exactly
\* request.amount to the requester, takes the same amount from remainingSupply
\* and appends one MINT Transfer.
C39RequestLifecycle ==
    [][nreq' = nreq + 1 =>
          C39StatusStep /\ C39RefusalStep /\ C39CreditStep /\ C39NoCreditStep]_vars

\* a request approved earlier is sent for approval again and refused, the
\* credit on record being the single one of its amount
C39Witness ==
    /\ last.op = "approveTokenRequest"
    /\ Refused(last)
    /\ last.rid \in RequestIds
    /\ tokenRequests[last.rid].status = "APPROVED"
    /\ tokenRequests[last.rid].amount > 0
    /\ Len(transfers) >= 1
    /\ transfers[Len(transfers)].reason = "MINT"
    /\ transfers[Len(transfers)].tokenAmount = tokenRequests[last.rid].amount

\* an approval has just been refused for lack of supply
C39ShortSupply ==
    /\ last.op = "approveTokenRequest"
    /\ Refused(last)
    /\ last.rid \in RequestIds
    /\ tokenRequests[last.rid].status = "PENDING"
    /\ assets[tokenRequests[last.rid].assetId].remainingSupply
           < tokenRequests[last.rid].amount

----------------------------------------------------------------------------
(* Admin balance operations and escrow *)

FillRequest(c, i) == Request("fillOrder", c, "", "", 0, i, 0, 0, 0, "")
CancelRequest(c, i) == Request("cancelOrder", c, "", "", 0, i, 0, 0, 0, "")

\* on store db, order i still carries its tokens in full: the admin's rejection
\* returns them all to the seller, and a cancel or a fill that is accepted
\* returns or delivers them all
EscrowDue(db, i) ==
    LET o == db.orders[i] IN
    /\ \A r \in Runs(db, RejectOpenRequest(i)) :
          /\ r.l.res = 200
          /\ Balance(r.db.tokens, o.assetId, o.sellerId)
                 = Balance(db.tokens, o.assetId, o.sellerId) + o.tokenAmount
    /\ \A r \in Runs(db, CancelRequest(o.sellerId, i)) :
          Succeeded(r.l) =>
              Balance(r.db.tokens, o.assetId, o.sellerId)
                  = Balance(db.tokens, o.assetId, o.sellerId) + o.tokenAmount
    /\ \A c \in Investors : \A r \in Runs(db, FillRequest(c, i)) :
          Succeeded(r.l) =>
              Balance(r.db.tokens, o.assetId, c)
                  = Balance(db.tokens, o.assetId, c) + o.tokenAmount

\* an adminSetAmount of row t to a negative amount is refused and writes nothing
NegativeRefused(t) ==
    \A r \in Runs(DB, Request("adminSetAmount", "adm", "", "", t.id, 0, 0, -1, 0, "")) :
        Refused(r.l) /\ r.db = DB

C40Step ==
    (nreq' = nreq + 1 /\ last'.op \in {"revoke", "adminSetAmount"}) =>
        /\ orders' = orders
        /\ \A t \in tokens :
              t.id = last'.tid =>
                  /\ NegativeRefused(t)
                  /\ Balance(tokens, t.assetId, t.ownerId)
                             - Balance(tokens', t.assetId, t.ownerId)
                         <= (IF t.amount > 0 THEN t.amount ELSE 0)
                  /\ OtherRows(tokens', t.assetId, t.ownerId)
                         = OtherRows(tokens, t.assetId, t.ownerId)
        /\ (\A t \in tokens : t.id # last'.tid) => tokens' = tokens
        /\ \A i \in OrderIds : orders[i].status = "OPEN" => EscrowDue(DB', i)

\* C40: revoke and adminSetAmount leave every Order row unchanged and take from
\* the targeted Token row at most the amount it holds, so the tokens of an OPEN
\* order are still delivered in full by a later fill and returned in full by
\* a later cancel or reject.
C40EscrowOutOfReach == [][C40Step]_vars

\* the seller's remaining tokens were revoked (the row is gone) and the OPEN
\* order was then filled: the buyer holds all the order's tokens
C40Witness ==
    /\ last.op = "fillOrder"
    /\ Succeeded(last)
    /\ orders[last.oid].status = "FILLED"
    /\ orders[last.oid].tokenAmount > 0
    /\ Balance(tokens, orders[last.oid].assetId, last.caller) = orders[last.oid].tokenAmount
    /\ Balance(tokens, orders[last.oid].assetId, orders[last.oid].sellerId) = 0
    /\ \E i \in 1..Len(transfers) :
          /\ transfers[i].reason = "ADMIN_REVOKE"
          /\ transfers[i].fromUserId = orders[last.oid].sellerId

====
